---- MODULE Spec2Model ----
(***************************************************************************)
(* Model of typhonjs-plugin-manager: the registry (PluginManager._pluginMap *)
(* of PluginEntry), the three dispatch protocols (invokeSync, invokeAsync,  *)
(* invokeSyncEvent / s_INVOKE_SYNC_EVENTS), the PluginEvent envelope and    *)
(* the eventbus binding with one EventProxy per entry.                      *)
(***************************************************************************)
EXTENDS Integers, Sequences, FiniteSets, TLC

VARIABLES pluginMap, eventbus, eventPrepend, options, bus, nextProxy,
          destroyed, last, settled, proxyReuse, _plugins

vars ==
  <<pluginMap, eventbus, eventPrepend, options, bus, nextProxy, destroyed, last,
    settled, proxyReuse, _plugins>>

\* proxyReuse is what the event library does when destroy() is called on an
\* EventProxy that was destroyed before; it is fixed for a behaviour.
\* _plugins is the array of the simple dispatcher of dist/PluginManager.js, a
\* class of its own that shares nothing with the manager above.

(***************************************************************************)
(* Bounds and input sets.                                                   *)
(***************************************************************************)
\* Number of EventProxy objects the manager may create in one behaviour.
MaxProxies == 2

\* Number of plugins added to the simple dispatcher.
MaxPlugins == 3

\* Plugin names used by callers.
Names == {"a", "b"}

\* The plugin instance objects callers pass as pluginConfig.instance.
Instances == {"i1", "i2", "i3"}

\* Plugin instance objects whose lifecycle hooks throw.
ThrowingInstances == {"i4", "i5"}

\* A plugin instance object whose test publishes a command of the manager on
\* the bus, and the name it asks the manager to remove.
PublishingInstances == {"i6"}
PublishedName == "b"

\* The eventbus objects callers pass to setEventbus.
Buses == {"bus1", "bus2"}

\* Values of _eventbus / _eventPrepend before the first setEventbus.
NoBus == "null"
NoPrepend == "undefined"

\* Event prefixes callers pass to setEventbus.
Prepends == {"plugins", "p2"}

\* pluginConfig.options values; "undefined" is the absent value.
NoOptions == "undefined"
ConfigOptions == {NoOptions, "optA"}

\* Method names callers dispatch.
MethodNames == {"test", "test2"}

\* A value that is neither a string nor an object nor undefined: 42.
NotTyped == "42"

(***************************************************************************)
(* JavaScript values: numbers, null, undefined, references to heap objects  *)
(* and arrays of strings, in one record shape.                              *)
(***************************************************************************)
Num(n) == [t |-> "num", n |-> n, r |-> <<>>, s |-> <<>>]
Ref(id) == [t |-> "ref", n |-> 0, r |-> id, s |-> <<>>]
Arr(s) == [t |-> "arr", n |-> 0, r |-> <<>>, s |-> s]
Null == [t |-> "null", n |-> 0, r |-> <<>>, s |-> <<>>]
PromiseOf(id) == [t |-> "promise", n |-> 0, r |-> id, s |-> <<>>]
Undefined == [t |-> "undefined", n |-> 0, r |-> <<>>, s |-> <<>>]

(***************************************************************************)
(* The plugins of the test suite, as the instance objects of the model.     *)
(*   i1  class PluginTest: test, onPluginLoad, and an onPluginUnload        *)
(*   i2  object pluginTest: test, onPluginLoad, and a test2 that throws     *)
(*   i3  class PluginTestNoName2: test2 only, returning a promise           *)
(* and two plugins that are not of the test suite:                          *)
(*   i4  object: an onPluginLoad like that of i1, an onPluginUnload that     *)
(*       throws                                                              *)
(*   i5  object: an onPluginLoad that throws                                 *)
(*   i6  object: an onPluginLoad like that of i1, and a test that calls      *)
(*       triggerSync('plugins:remove', 'b') on the proxy it was given        *)
(***************************************************************************)
InstanceMethods(i) ==
  CASE i = "i1" -> {"test", "onPluginLoad", "onPluginUnload"}
    [] i = "i2" -> {"test", "test2", "onPluginLoad"}
    [] i = "i4" -> {"onPluginLoad", "onPluginUnload"}
    [] i = "i5" -> {"onPluginLoad"}
    [] i = "i6" -> {"test", "onPluginLoad"}
    [] OTHER -> {"test2"}

\* The method throws when it is called.
Throws(i, methodName) ==
  \/ i = "i2" /\ methodName = "test2"
  \/ i = "i4" /\ methodName = "onPluginUnload"
  \/ i = "i5" /\ methodName = "onPluginLoad"

\* The functions every object inherits from Object.prototype or holds as
\* its constructor: typeof obj.toString, typeof obj.constructor.
InheritedFunctions == {"constructor", "toString"}

\* typeof plugin.instance[methodName] === 'function'
IsFunction(i, methodName) ==
  methodName \in InstanceMethods(i) \cup InheritedFunctions

\* s_GET_ALL_PROPERTY_NAMES(plugin.instance): the own property names, then
\* those of the prototypes before Object.prototype.  i1 and i3 are instances
\* of classes, i2 is an object literal.
s_GET_ALL_PROPERTY_NAMES(i) ==
  CASE i = "i1" -> <<"constructor", "test", "onPluginLoad", "onPluginUnload">>
    [] i = "i2" -> <<"test", "test2", "onPluginLoad">>
    [] i = "i4" -> <<"onPluginLoad", "onPluginUnload">>
    [] i = "i5" -> <<"onPluginLoad">>
    [] i = "i6" -> <<"test", "onPluginLoad">>
    [] OTHER -> <<"constructor", "test2">>

\* The value a plugin method returns to invokeSync / invokeAsync.
MethodReturn(i, methodName) ==
  CASE i = "i1" /\ methodName = "test" -> Num(6)
    [] i = "i2" /\ methodName = "test" -> Null
    [] i = "i3" /\ methodName = "test2" -> PromiseOf(<<"q">>)
    [] OTHER -> Undefined

(***************************************************************************)
(* Promises.  The promise q that i3's test2 returns is pending until the    *)
(* plugin resolves it with 7 or rejects it; settled is its state.  The      *)
(* state of the promise invokeAsync returned follows from it as Promise.all *)
(* and Promise.resolve define.                                              *)
(***************************************************************************)
PromiseStates == {"pending", "resolved", "rejected"}

\* The value q is resolved with, and the reason it is rejected with.
ResolvedValue == Num(7)
RejectReason == "q rejected"

\* The state of a value awaited: a value that is no promise is resolved.
Awaited(v, st) == IF v.t = "promise" THEN st ELSE "resolved"

\* The value a resolved v yields.
Yield(v) == IF v.t = "promise" THEN ResolvedValue ELSE v

Settlement(state, v, arr, err) ==
  [state |-> state, v |-> v, arr |-> arr, err |-> err]

\* Promise.all(arr): rejected once an element is, resolved with the array of
\* the elements' values once all are, pending before.
PromiseAllState(arr, st) ==
  IF \E i \in 1..Len(arr) : Awaited(arr[i], st) = "rejected"
    THEN Settlement("rejected", Undefined, <<>>, RejectReason)
  ELSE IF \E i \in 1..Len(arr) : Awaited(arr[i], st) = "pending"
    THEN Settlement("pending", Undefined, <<>>, "")
  ELSE Settlement("resolved", Undefined, [i \in 1..Len(arr) |-> Yield(arr[i])], "")

\* Promise.resolve(v): follows v when v is a promise.
PromiseResolveState(v, st) ==
  CASE Awaited(v, st) = "rejected" ->
         Settlement("rejected", Undefined, <<>>, RejectReason)
    [] Awaited(v, st) = "pending" -> Settlement("pending", Undefined, <<>>, "")
    [] OTHER -> Settlement("resolved", Yield(v), <<>>, "")

(***************************************************************************)
(* The eventbus and EventProxy (backbone-esnext-events).  A subscription is *)
(* (event name, callback); callback 0 is the manager's, callback p > 0 is   *)
(* the arrow function a plugin subscribed through proxy p.  via is the name *)
(* of the plugin the proxy was handed to ("" for the manager).              *)
(***************************************************************************)
Sub(ev, cb, via) == [ev |-> ev, cb |-> cb, via |-> via]

\* eventbus.on(name, callback, context)
BusOn(b, busId, sub) == [b EXCEPT ![busId] = @ \cup {sub}]

\* eventbus.off(name, callback, context)
BusOff(b, busId, ev, cb) ==
  [b EXCEPT ![busId] = {s \in @ : ~(s.ev = ev /\ s.cb = cb)}]

\* An entry without proxy holds undefined.
NoProxy == [id |-> 0, eventbus |-> NoBus, events |-> {}]

\* new EventProxy(eventbus)
EventProxyNew(id, busId) == [id |-> id, eventbus |-> busId, events |-> {}]

\* entry.eventProxy instanceof EventProxy
IsEventProxy(p) == p.id # 0

\* EventProxy.on(name, callback): subscribes on the bus and records it.
EventProxyOn(p, ev) == [p EXCEPT !.events = @ \cup {<<ev, p.id>>}]

\* A destroyed EventProxy: it wraps no bus and records nothing.
Destroyed(p) == [p EXCEPT !.eventbus = NoBus, !.events = {}]

\* entry.eventProxy is an EventProxy that was destroyed.
IsDestroyed(p) == IsEventProxy(p) /\ p.eventbus = NoBus

\* What destroy() of a destroyed EventProxy does; the proxy must not be
\* reused after destroy(), and the library either ignores the call or throws.
ProxyReuseOutcomes == {"ignored", "throws"}

ProxyDestroyedError == "This EventProxy instance has been destroyed."

\* EventProxy.destroy(): unsubscribes every recorded binding from the bus.
EventProxyDestroy(b, p) ==
  IF p.eventbus = NoBus THEN b
  ELSE [b EXCEPT ![p.eventbus] =
          {s \in @ : <<s.ev, s.cb>> \notin p.events}]

(***************************************************************************)
(* PluginEntry and the insertion-ordered Map of entries.                    *)
(***************************************************************************)
PluginEntry(name, type, instance, eventProxy, opts) ==
  [name |-> name, type |-> type, instance |-> instance, enabled |-> TRUE,
   eventProxy |-> eventProxy, options |-> opts]

\* Array.from(map.keys())
MapKeys(map) == [i \in 1..Len(map) |-> map[i].name]

\* map.has(name)
MapHas(map, name) == \E i \in 1..Len(map) : map[i].name = name

MapIndex(map, name) == CHOOSE i \in 1..Len(map) : map[i].name = name

\* map.get(name), defined when map.has(name)
MapGet(map, name) == map[MapIndex(map, name)]

\* map.set(name, entry): an existing key keeps its position.
MapSet(map, name, entry) ==
  IF MapHas(map, name) THEN [map EXCEPT ![MapIndex(map, name)] = entry]
  ELSE Append(map, entry)

\* map.delete(name)
MapDelete(map, name) ==
  SelectSeq(map, LAMBDA e : e.name # name)

(***************************************************************************)
(* The heap of payload objects.  An object is a function from field names   *)
(* to values; an object id is <<label, n>>.  The caller owns                *)
(*   <<"C", 0>> = { count: 0, result: <<"CN", 0>> }  (passed as copyProps)  *)
(*   <<"P", 0>> = { count: 0, result: <<"PN", 0>> }  (passed as passthru)   *)
(* and <<"E", 0>> = {} stands for a defaulted argument.                     *)
(***************************************************************************)
EmptyObject == <<>>

CallerHeap ==
  (<<"C", 0>> :> [count |-> Num(0), result |-> Ref(<<"CN", 0>>)]) @@
  (<<"CN", 0>> :> [count |-> Num(0)]) @@
  (<<"P", 0>> :> [count |-> Num(0), result |-> Ref(<<"PN", 0>>)]) @@
  (<<"PN", 0>> :> [count |-> Num(0)]) @@
  (<<"E", 0>> :> EmptyObject)

\* The arguments a caller passes as copyProps / passthruProps.
CopyArgs == {<<"E", 0>>, <<"C", 0>>}
PassthruArgs == {<<"E", 0>>, <<"P", 0>>}

\* The id of the object JSON.parse allocates for src in envelope n.
CopyId(src, n) ==
  CASE src[1] \in {"CN", "DN"} -> <<"DN", n>>
    [] src[1] \in {"PN", "DPN"} -> <<"DPN", n>>
    [] OTHER -> <<"D", n>>

\* obj[k] = v
SetField(obj, k, v) == (k :> v) @@ obj

HasField(obj, k) == k \in DOMAIN obj

RECURSIVE JSONCopyFields(_, _, _, _, _)
\* A copy that shares the nested objects of src: Object.assign({}, h[src]).
JSONCopyShallow(h, src, dst, n) == (dst :> h[src]) @@ h

\* JSON.parse(JSON.stringify(h[src])) written to dst: properties holding
\* undefined are dropped, nested objects are copied, arrays and numbers kept.
JSONCopy(h, src, dst, n) ==
  JSONCopyFields((dst :> EmptyObject) @@ h, src, dst, n, DOMAIN h[src])

JSONCopyFields(h, src, dst, n, ks) ==
  IF ks = {} THEN h
  ELSE LET k == CHOOSE x \in ks : TRUE
           v == h[src][k]
       IN IF v.t = "undefined" THEN JSONCopyFields(h, src, dst, n, ks \ {k})
          ELSE IF v.t = "ref"
            THEN LET h1 == JSONCopy(h, v.r, CopyId(v.r, n), n)
                 IN JSONCopyFields(
                      [h1 EXCEPT ![dst] = SetField(@, k, Ref(CopyId(v.r, n)))],
                      src, dst, n, ks \ {k})
            ELSE JSONCopyFields([h EXCEPT ![dst] = SetField(@, k, v)],
                                src, dst, n, ks \ {k})

\* Object.assign(target, source): source's own properties overwrite target's.
ObjectAssign(h, target, source) ==
  [h EXCEPT ![target] = h[source] @@ @]

\* A constructor that copies passthruProps as well:
\* JSON.parse(JSON.stringify(Object.assign(copy of copyProps, passthruProps))).
PluginEventCopiesPassthru(h, copyProps, passthruProps, n) ==
  [heap |-> ObjectAssign(JSONCopy(JSONCopy(h, copyProps, CopyId(copyProps, n), n),
                                  passthruProps, <<"DP", n>>, n),
                         CopyId(copyProps, n), <<"DP", n>>),
   ev |-> [n |-> n, data |-> CopyId(copyProps, n), eventbus |-> NoProxy,
           pluginName |-> "undefined", pluginOptions |-> NoOptions]]

\* new PluginEvent(copyProps, passthruProps), the n-th envelope of a call.
PluginEvent(h, copyProps, passthruProps, n) ==
  LET data == CopyId(copyProps, n)
  IN [heap |-> ObjectAssign(JSONCopy(h, copyProps, data, n), data, passthruProps),
      ev |-> [n |-> n, data |-> data, eventbus |-> NoProxy,
              pluginName |-> "undefined", pluginOptions |-> NoOptions]]

(***************************************************************************)
(* The bodies of the plugins' methods.  They follow the plugins of the test *)
(* suite: test(event) increments event.data.result.count, onPluginLoad(ev)  *)
(* subscribes through ev.eventbus when it is given one.  In addition i2's   *)
(* test assigns two top-level properties of the payload.                    *)
(***************************************************************************)
\* if (event.data.result) { event.data.result.count++; }
IncrementResultCount(h, data) ==
  IF HasField(h[data], "result") /\ h[data]["result"].t = "ref"
  THEN LET nested == h[data]["result"].r
       IN [h EXCEPT ![nested] = SetField(@, "count", Num(@["count"].n + 1))]
  ELSE h

\* event.data.count = (event.data.count || 0) + 1;
\* event.data.$$plugin_invoke_count = 99;
AssignTopLevel(h, data) ==
  LET old == IF HasField(h[data], "count") THEN h[data]["count"].n ELSE 0
  IN [h EXCEPT ![data] =
        SetField(SetField(@, "count", Num(old + 1)),
                 "$$plugin_invoke_count", Num(99))]

\* The count the plugin reads in event.data.result on entry (-1: no result).
SeenCount(h, data) ==
  IF HasField(h[data], "result") /\ h[data]["result"].t = "ref"
  THEN h[h[data]["result"].r]["count"].n
  ELSE -1

\* The subscriptions made through proxy p that are on its bus.
ProxySubs(b, p) ==
  IF IsEventProxy(p) /\ p.eventbus # NoBus
  THEN {s \in b[p.eventbus] : s.cb = p.id}
  ELSE {}

NoEvent ==
  [n |-> 0, data |-> <<>>, eventbus |-> NoProxy, pluginName |-> "undefined",
   pluginOptions |-> NoOptions]

\* One entry of the record of plugin method invocations of a call.
Invocation(w, entry, methodName, ev) ==
  [plugin |-> entry.name, instance |-> entry.instance, method |-> methodName,
   ev |-> ev,
   seen |-> IF ev.n = 0 THEN -1 ELSE SeenCount(w.heap, ev.data),
   keys |-> MapKeys(w.map),
   subs |-> ProxySubs(w.bus, entry.eventProxy)]

\* The manager as the fan-out in world w finds it.
ManagerOf(w) == [w.mgr EXCEPT !.pluginMap = w.map, !.bus = w.bus]

\* The world after the manager's handler ended with r inside a plugin method:
\* triggerSync runs the handler before it returns, and an exception of the
\* handler is one of the plugin method.
Delivered(w, r) ==
  [w EXCEPT !.map = r.s.pluginMap, !.bus = r.s.bus, !.trace = @ \o r.trace,
            !.thrown = (r.ret.kind = "throw")]

RECURSIVE _removeEventbus(_, _)
\* proxy.triggerSync('plugins:remove', pluginName) in a method of entry's
\* plugin: the manager's handler runs when it is subscribed under that name
\* on the bus the proxy wraps.  A destroyed proxy ignores the call or throws.
PublishRemove(w, entry, pluginName) ==
  IF IsDestroyed(entry.eventProxy)
  THEN [w EXCEPT !.thrown = (w.mgr.proxyReuse = "throws")]
  ELSE IF IsEventProxy(entry.eventProxy)
          /\ Sub("plugins:remove", 0, "manager") \in w.bus[entry.eventProxy.eventbus]
  THEN Delivered(w, _removeEventbus(ManagerOf(w), pluginName))
  ELSE w

\* The body of the method: its effect on the payload, on the entry's proxy
\* and on the bus.
MethodBody(w, entry, methodName, ev) ==
  CASE Throws(entry.instance, methodName) -> [w EXCEPT !.thrown = TRUE]
    [] entry.instance \in PublishingInstances /\ methodName = "test" ->
         PublishRemove(w, entry, PublishedName)
    [] methodName \in {"test", "test2"} ->
         [w EXCEPT !.heap =
            IF entry.instance = "i2"
            THEN AssignTopLevel(IncrementResultCount(@, ev.data), ev.data)
            ELSE IncrementResultCount(@, ev.data)]
    [] methodName = "onPluginLoad" /\ IsEventProxy(ev.eventbus) ->
         [w EXCEPT
            !.map = MapSet(@, entry.name,
                           [entry EXCEPT
                              !.eventProxy = EventProxyOn(ev.eventbus, "evt")]),
            !.bus = BusOn(@, ev.eventbus.eventbus,
                          Sub("evt", ev.eventbus.id, entry.name))]
    [] OTHER -> w

\* The call made with the envelope e in place of ev.
CallWithEnvelope(w, entry, methodName, ev, e) ==
  MethodBody([w EXCEPT
                !.heap = e.heap,
                !.trace = Append(@, Invocation([w EXCEPT !.heap = e.heap], entry,
                                               methodName,
                                               [ev EXCEPT !.n = e.ev.n,
                                                          !.data = e.ev.data]))],
             entry, methodName, [ev EXCEPT !.n = e.ev.n, !.data = e.ev.data])

\* A call that hands each target an envelope of its own:
\* plugin.instance[methodName](new PluginEvent(ev.data)).
PluginMethodEventCopy(w, entry, methodName, ev) ==
  CallWithEnvelope(w, entry, methodName, ev,
                   PluginEvent(w.heap, ev.data, <<"E", 0>>, Len(w.trace) + 2))

\* plugin.instance[methodName](ev): records the call and runs the body.
PluginMethodEvent(w, entry, methodName, ev) ==
  MethodBody([w EXCEPT !.trace = Append(@, Invocation(w, entry, methodName, ev))],
             entry, methodName, ev)

\* plugin.instance[methodName](...args): records the call; the value returned
\* is MethodReturn.
PluginMethodSync(w, entry, methodName) ==
  IF entry.instance \in PublishingInstances /\ methodName = "test"
  THEN PublishRemove([w EXCEPT !.trace = Append(@, Invocation(w, entry, methodName,
                                                             NoEvent))],
                     entry, PublishedName)
  ELSE [w EXCEPT !.trace = Append(@, Invocation(w, entry, methodName, NoEvent)),
                 !.thrown = Throws(entry.instance, methodName)]

(***************************************************************************)
(* The dispatch loops.  A world w carries what a fan-out reads and writes:  *)
(* the registry, the bus, the payload heap, the envelope and the loop's     *)
(* local variables; thrown says that a plugin method threw, which ends the  *)
(* loop.                                                                    *)
(***************************************************************************)
World(s, h) ==
  [map |-> s.pluginMap, bus |-> s.bus, mgr |-> s, heap |-> h, ev |-> NoEvent,
   copyProps |-> <<"E", 0>>, passthruProps |-> <<"E", 0>>,
   trace |-> <<>>, hasMethod |-> FALSE, hasPlugin |-> FALSE,
   result |-> Undefined, results |-> <<>>,
   pluginInvokeCount |-> 0, pluginInvokeNames |-> <<>>, thrown |-> FALSE]

\* The targets a caller passes as nameOrList: one name, a list of names, or
\* nothing (the default this._pluginMap.keys()).
TargetString(name) == [t |-> "string", name |-> name, list |-> <<>>]
TargetList(list) == [t |-> "list", name |-> "", list |-> list]
TargetKeys == [t |-> "keys", name |-> "", list |-> <<>>]

\* A selection that forgets the enabled flag: plugin instanceof PluginEntry.
IsTargetIgnoringEnabled(map, name) == MapHas(map, name)

\* plugin instanceof PluginEntry && plugin.enabled && plugin.instance
IsTarget(map, name) == MapHas(map, name) /\ MapGet(map, name).enabled

\* The filter with && in place of ||: null and undefined are not collected.
PushResultNonNull(results, result) ==
  IF result # Null /\ result # Undefined THEN Append(results, result)
  ELSE results

\* if (result !== null || typeof result !== 'undefined') { results.push(result); }
PushResult(results, result) ==
  IF result # Null \/ result # Undefined THEN Append(results, result)
  ELSE results

\* The body of invokeSync's and invokeAsync's loops for one name.
InvokeSyncStep(w, name, methodName) ==
  IF ~IsTarget(w.map, name) THEN w
  ELSE LET plugin == MapGet(w.map, name)
           w1 == [w EXCEPT !.hasPlugin = TRUE]
       IN IF ~IsFunction(plugin.instance, methodName) THEN w1
          ELSE LET w2 == PluginMethodSync(w1, plugin, methodName)
                   result == MethodReturn(plugin.instance, methodName)
               IN IF w2.thrown THEN w2
                  ELSE [w2 EXCEPT !.result = result,
                                  !.results = PushResult(@, result),
                                  !.hasMethod = TRUE]

\* A loop body that sets the envelope's eventbus, pluginName and
\* pluginOptions for the first target invoked only.
InvokeEventStepSetOnce(w, name, methodName) ==
  IF ~IsTarget(w.map, name) THEN w
  ELSE LET plugin == MapGet(w.map, name)
           w1 == [w EXCEPT !.hasPlugin = TRUE]
       IN IF ~IsFunction(plugin.instance, methodName) THEN w1
          ELSE LET ev == IF w1.pluginInvokeCount > 0 THEN w1.ev
                         ELSE [w1.ev EXCEPT !.eventbus = plugin.eventProxy,
                                            !.pluginName = plugin.name,
                                            !.pluginOptions = plugin.options]
                   w2 == PluginMethodEvent([w1 EXCEPT !.ev = ev], plugin,
                                           methodName, ev)
               IN IF w2.thrown THEN w2
                  ELSE [w2 EXCEPT !.hasMethod = TRUE,
                                  !.pluginInvokeCount = @ + 1,
                                  !.pluginInvokeNames = Append(@, plugin.name)]

\* The body of s_INVOKE_SYNC_EVENTS' loop for one name.
InvokeEventStep(w, name, methodName) ==
  IF ~IsTarget(w.map, name) THEN w
  ELSE LET plugin == MapGet(w.map, name)
           w1 == [w EXCEPT !.hasPlugin = TRUE]
       IN IF ~IsFunction(plugin.instance, methodName) THEN w1
          ELSE LET ev == [w1.ev EXCEPT !.eventbus = plugin.eventProxy,
                                       !.pluginName = plugin.name,
                                       !.pluginOptions = plugin.options]
                   w2 == PluginMethodEvent([w1 EXCEPT !.ev = ev], plugin,
                                           methodName, ev)
               IN IF w2.thrown THEN w2
                  ELSE [w2 EXCEPT !.hasMethod = TRUE,
                                  !.pluginInvokeCount = @ + 1,
                                  !.pluginInvokeNames = Append(@, plugin.name)]

\* One iteration of the loop; none is run after a plugin method threw.
Step(w, name, methodName, isEvent) ==
  IF w.thrown THEN w
  ELSE IF isEvent THEN InvokeEventStep(w, name, methodName)
  ELSE InvokeSyncStep(w, name, methodName)

RECURSIVE ForOfListOnce(_, _, _, _, _)
\* A loop that visits a name at its first occurrence in the list only.
ForOfListOnce(w, list, i, methodName, isEvent) ==
  IF i > Len(list) THEN w
  ELSE IF \E j \in 1..(i - 1) : list[j] = list[i]
    THEN ForOfListOnce(w, list, i + 1, methodName, isEvent)
  ELSE ForOfListOnce(Step(w, list[i], methodName, isEvent), list, i + 1,
                     methodName, isEvent)

RECURSIVE ForOfList(_, _, _, _, _)
\* for (const name of nameOrList) over an array of names.
ForOfList(w, list, i, methodName, isEvent) ==
  IF i > Len(list) THEN w
  ELSE ForOfList(Step(w, list[i], methodName, isEvent), list, i + 1,
                 methodName, isEvent)

RECURSIVE ForOfKeysBackward(_, _, _, _)
\* An iteration over the keys from the last registered to the first.
ForOfKeysBackward(w, i, methodName, isEvent) ==
  IF i > Len(w.map) THEN w
  ELSE ForOfKeysBackward(Step(w, w.map[Len(w.map) - i + 1].name, methodName,
                              isEvent),
                         i + 1, methodName, isEvent)

RECURSIVE ForOfKeys(_, _, _, _)
\* for (const name of this._pluginMap.keys()): the iterator reads the live Map.
ForOfKeys(w, i, methodName, isEvent) ==
  IF i > Len(w.map) THEN w
  ELSE ForOfKeys(Step(w, w.map[i].name, methodName, isEvent), i + 1,
                 methodName, isEvent)

\* The if / else over typeof nameOrList === 'string'.
Dispatch(w, nameOrList, methodName, isEvent) ==
  CASE nameOrList.t = "string" -> Step(w, nameOrList.name, methodName, isEvent)
    [] nameOrList.t = "list" -> ForOfList(w, nameOrList.list, 1, methodName, isEvent)
    [] OTHER -> ForOfKeys(w, 1, methodName, isEvent)

\* The outcome of a call: a returned value or array, a thrown error, or the
\* promise invokeAsync returns.
Outcome(kind, isArray, v, arr, err, data) ==
  [kind |-> kind, isArray |-> isArray, v |-> v, arr |-> arr, err |-> err,
   data |-> data]

Return(v) == Outcome("return", FALSE, v, <<>>, "", <<>>)
ReturnArray(arr) == Outcome("return", TRUE, Undefined, arr, "", <<>>)
ReturnData(data) == Outcome("return", FALSE, Undefined, <<>>, "", data)
Throw(err) == Outcome("throw", FALSE, Undefined, <<>>, err, <<>>)
PromiseResolve(v) == Outcome("resolve", FALSE, v, <<>>, "", <<>>)
PromiseAll(arr) == Outcome("all", TRUE, Undefined, arr, "", <<>>)
PromiseReject(err) == Outcome("reject", FALSE, Undefined, <<>>, err, <<>>)

NoTargetError == "PluginManager failed to find any target plugins."
NoMethodError == "PluginManager failed to invoke method."

\* The error a throwing plugin method throws.
PluginError == "plugin method error"

\* The state of the promise ret that invokeAsync returned, q being in state
\* st.  Promise.resolve of an array resolves with the array as it is.
Completion(ret, st) ==
  CASE ret.kind = "reject" -> Settlement("rejected", Undefined, <<>>, ret.err)
    [] ret.kind = "all" -> PromiseAllState(ret.arr, st)
    [] ret.kind = "resolve" /\ ret.isArray ->
         Settlement("resolved", Undefined, ret.arr, "")
    [] OTHER -> PromiseResolveState(ret.v, st)

\* The call ended by an exception.
Thrown(r) == r.ret.kind = "throw"

(***************************************************************************)
(* The manager and the buses as one record s; every operation of the        *)
(* manager is an operator from s and its arguments to the record            *)
(* [s, trace, ret, heap]: the state after the call, the plugin methods it   *)
(* invoked, its outcome and the payload heap it leaves.                     *)
(***************************************************************************)
Bool(x) == [t |-> "bool", n |-> IF x THEN 1 ELSE 0, r |-> <<>>, s |-> <<>>]

Result(s, trace, ret, heap) ==
  [s |-> s, trace |-> trace, ret |-> ret, heap |-> heap]

\* The state after a fan-out that ended in world w.
After(s, w) == [s EXCEPT !.pluginMap = w.map, !.bus = w.bus]

\* Meta data that keeps a field a plugin already wrote.
AddMetaDataKeepExisting(w) ==
  [w.heap EXCEPT ![w.ev.data] =
     @ @@ [f \in {"$$plugin_invoke_count", "$$plugin_invoke_names"} |->
             IF f = "$$plugin_invoke_count" THEN Num(w.pluginInvokeCount)
             ELSE Arr(w.pluginInvokeNames)]]

\* ev.data.$$plugin_invoke_count = ...; ev.data.$$plugin_invoke_names = ...
AddMetaData(w) ==
  [w.heap EXCEPT ![w.ev.data] =
     SetField(SetField(@, "$$plugin_invoke_count", Num(w.pluginInvokeCount)),
              "$$plugin_invoke_names", Arr(w.pluginInvokeNames))]

\* An end of s_INVOKE_SYNC_EVENTS that checks for the method first.
EventOutcomeMethodFirst(s, w, performErrorCheck) ==
  IF w.thrown
    THEN Result(After(s, w), w.trace, Throw(PluginError), w.heap)
  ELSE IF performErrorCheck /\ s.options.throwNoMethod /\ ~w.hasMethod
    THEN Result(After(s, w), w.trace, Throw(NoMethodError), w.heap)
  ELSE IF performErrorCheck /\ s.options.throwNoPlugin /\ ~w.hasPlugin
    THEN Result(After(s, w), w.trace, Throw(NoTargetError), w.heap)
  ELSE Result(After(s, w), w.trace, ReturnData(w.ev.data), AddMetaData(w))

\* The end of s_INVOKE_SYNC_EVENTS: the two error checks, the meta data and
\* the return of ev.data.
EventOutcome(s, w, performErrorCheck) ==
  IF w.thrown
    THEN Result(After(s, w), w.trace, Throw(PluginError), w.heap)
  ELSE IF performErrorCheck /\ s.options.throwNoPlugin /\ ~w.hasPlugin
    THEN Result(After(s, w), w.trace, Throw(NoTargetError), w.heap)
  ELSE IF performErrorCheck /\ s.options.throwNoMethod /\ ~w.hasMethod
    THEN Result(After(s, w), w.trace, Throw(NoMethodError), w.heap)
  ELSE Result(After(s, w), w.trace, ReturnData(w.ev.data), AddMetaData(w))

\* The world a call of s_INVOKE_SYNC_EVENTS starts its loop in: e is the
\* new PluginEvent.
EventWorld(s, e, copyProps, passthruProps) ==
  [World(s, e.heap) EXCEPT
     !.ev = e.ev, !.copyProps = copyProps, !.passthruProps = passthruProps]

\* s_INVOKE_SYNC_EVENTS(methodName, copyProps, passthruProps, nameOrList,
\*                      pluginMap, options, performErrorCheck)
s_INVOKE_SYNC_EVENTS(methodName, copyProps, passthruProps, nameOrList, s, performErrorCheck) ==
  EventOutcome(s,
               Dispatch(EventWorld(s, PluginEvent(CallerHeap, copyProps,
                                                  passthruProps, 1),
                                   copyProps, passthruProps),
                        nameOrList, methodName, TRUE),
               performErrorCheck)

\* invokeSyncEvent(methodName, copyProps, passthruProps, nameOrList)
invokeSyncEvent(s, methodName, copyProps, passthruProps, nameOrList) ==
  s_INVOKE_SYNC_EVENTS(methodName, copyProps, passthruProps, nameOrList, s, TRUE)

\* An end of invokeSync that finds no target when nothing was invoked.
SyncOutcomeNoTargetOnNoMethod(s, w) ==
  IF w.thrown
    THEN Result(After(s, w), w.trace, Throw(PluginError), w.heap)
  ELSE IF s.options.throwNoPlugin /\ ~w.hasMethod
    THEN Result(After(s, w), w.trace, Throw(NoTargetError), w.heap)
  ELSE IF s.options.throwNoMethod /\ ~w.hasMethod
    THEN Result(After(s, w), w.trace, Throw(NoMethodError), w.heap)
  ELSE Result(After(s, w), w.trace,
              IF Len(w.results) > 1 THEN ReturnArray(w.results)
              ELSE Return(w.result),
              w.heap)

\* The end of invokeSync: the two error checks and the return.
SyncOutcome(s, w) ==
  IF w.thrown
    THEN Result(After(s, w), w.trace, Throw(PluginError), w.heap)
  ELSE IF s.options.throwNoPlugin /\ ~w.hasPlugin
    THEN Result(After(s, w), w.trace, Throw(NoTargetError), w.heap)
  ELSE IF s.options.throwNoMethod /\ ~w.hasMethod
    THEN Result(After(s, w), w.trace, Throw(NoMethodError), w.heap)
  ELSE Result(After(s, w), w.trace,
              IF Len(w.results) > 1 THEN ReturnArray(w.results)
              ELSE Return(w.result),
              w.heap)

\* invokeSync(nameOrList, methodName, ...args)
invokeSync(s, nameOrList, methodName) ==
  SyncOutcome(s, Dispatch(World(s, CallerHeap), nameOrList,
                          methodName, FALSE))

\* An end of invokeAsync without the try / catch: the exception of a plugin
\* method reaches the caller.
AsyncOutcomeUncaught(s, w) ==
  IF w.thrown
    THEN Result(After(s, w), w.trace, Throw(PluginError), w.heap)
  ELSE IF s.options.throwNoPlugin /\ ~w.hasPlugin
    THEN Result(After(s, w), w.trace, PromiseReject(NoTargetError), w.heap)
  ELSE IF s.options.throwNoMethod /\ ~w.hasMethod
    THEN Result(After(s, w), w.trace, PromiseReject(NoMethodError), w.heap)
  ELSE Result(After(s, w), w.trace,
              IF Len(w.results) > 1 THEN PromiseAll(w.results)
              ELSE PromiseResolve(w.result),
              w.heap)

\* An end of invokeAsync that does not wait for the results:
\* Promise.resolve(results).
AsyncOutcomeNoWait(s, w) ==
  IF w.thrown
    THEN Result(After(s, w), w.trace, PromiseReject(PluginError), w.heap)
  ELSE IF s.options.throwNoPlugin /\ ~w.hasPlugin
    THEN Result(After(s, w), w.trace, PromiseReject(NoTargetError), w.heap)
  ELSE IF s.options.throwNoMethod /\ ~w.hasMethod
    THEN Result(After(s, w), w.trace, PromiseReject(NoMethodError), w.heap)
  ELSE Result(After(s, w), w.trace,
              IF Len(w.results) > 1
              THEN Outcome("resolve", TRUE, Undefined, w.results, "", <<>>)
              ELSE PromiseResolve(w.result),
              w.heap)

\* An end of invokeAsync that returns Promise.all(results) for one result
\* too.
AsyncOutcomeAlwaysAll(s, w) ==
  IF w.thrown
    THEN Result(After(s, w), w.trace, PromiseReject(PluginError), w.heap)
  ELSE IF s.options.throwNoPlugin /\ ~w.hasPlugin
    THEN Result(After(s, w), w.trace, PromiseReject(NoTargetError), w.heap)
  ELSE IF s.options.throwNoMethod /\ ~w.hasMethod
    THEN Result(After(s, w), w.trace, PromiseReject(NoMethodError), w.heap)
  ELSE Result(After(s, w), w.trace,
              IF Len(w.results) > 0 THEN PromiseAll(w.results)
              ELSE PromiseResolve(w.result),
              w.heap)

\* The end of invokeAsync: the two error checks and the promise returned.
AsyncOutcome(s, w) ==
  IF w.thrown
    THEN Result(After(s, w), w.trace, PromiseReject(PluginError), w.heap)
  ELSE IF s.options.throwNoPlugin /\ ~w.hasPlugin
    THEN Result(After(s, w), w.trace, PromiseReject(NoTargetError), w.heap)
  ELSE IF s.options.throwNoMethod /\ ~w.hasMethod
    THEN Result(After(s, w), w.trace, PromiseReject(NoMethodError), w.heap)
  ELSE Result(After(s, w), w.trace,
              IF Len(w.results) > 1 THEN PromiseAll(w.results)
              ELSE PromiseResolve(w.result),
              w.heap)

\* invokeAsync(nameOrList, methodName, ...args)
invokeAsync(s, nameOrList, methodName) ==
  AsyncOutcome(s, Dispatch(World(s, CallerHeap), nameOrList,
                           methodName, FALSE))

\* A fan-out of a lifecycle hook that performs the error checks.
LifecycleChecked(s, methodName, nameOrList) ==
  s_INVOKE_SYNC_EVENTS(methodName, <<"E", 0>>, <<"E", 0>>, nameOrList, s, TRUE)

\* The quiet fan-out of a lifecycle hook over nameOrList.
Lifecycle(s, methodName, nameOrList) ==
  s_INVOKE_SYNC_EVENTS(methodName, <<"E", 0>>, <<"E", 0>>, nameOrList, s, FALSE)

\* The eventProxy add creates: new EventProxy(this._eventbus) or undefined.
AddProxy(s) ==
  IF s.eventbus # NoBus THEN EventProxyNew(s.nextProxy, s.eventbus) ELSE NoProxy

\* An insertion that first takes the entry registered under the name out of
\* the Map and destroys its proxy.
AddEntryAfterRemoval(s, pluginConfig) ==
  [s EXCEPT !.bus =
              IF MapHas(s.pluginMap, pluginConfig.name)
                 /\ IsEventProxy(MapGet(s.pluginMap, pluginConfig.name).eventProxy)
              THEN EventProxyDestroy(@, MapGet(s.pluginMap,
                                               pluginConfig.name).eventProxy)
              ELSE @,
            !.pluginMap =
              Append(MapDelete(@, pluginConfig.name),
                     PluginEntry(pluginConfig.name, "instance",
                                 pluginConfig.instance, AddProxy(s),
                                 pluginConfig.options)),
            !.nextProxy = IF s.eventbus # NoBus THEN @ + 1 ELSE @]

\* this._pluginMap.set(pluginConfig.name, new PluginEntry(...))
AddEntry(s, pluginConfig) ==
  [s EXCEPT !.pluginMap =
              MapSet(@, pluginConfig.name,
                     PluginEntry(pluginConfig.name, "instance",
                                 pluginConfig.instance, AddProxy(s),
                                 pluginConfig.options)),
            !.nextProxy = IF s.eventbus # NoBus THEN @ + 1 ELSE @]

\* What add returns after its onPluginLoad fan-out r.
AddOutcome(r) ==
  IF Thrown(r) THEN r ELSE Result(r.s, r.trace, Return(Undefined), r.heap)

\* typeof of the values a pluginConfig holds.
TypeOf(v) ==
  CASE v = "undefined" -> "undefined"
    [] v = NotTyped -> "number"
    [] v \in Instances \cup ThrowingInstances \cup PublishingInstances
              \cup (ConfigOptions \ {NoOptions}) -> "object"
    [] OTHER -> "string"

ConfigTypeError == "'pluginConfig' is not an 'object'."
NameTypeError == "'pluginConfig.name' is not a 'string'"
TargetTypeError == "'pluginConfig.target' is not a string"
OptionsTypeError == "'pluginConfig.options' is not an 'object'"

\* The checks of add without the one on pluginConfig.options.
ValidateConfigNoOptions(pluginConfig) ==
  CASE pluginConfig.t # "object" -> ConfigTypeError
    [] TypeOf(pluginConfig.name) # "string" -> NameTypeError
    [] TypeOf(pluginConfig.target) \notin {"undefined", "string"} ->
         TargetTypeError
    [] OTHER -> ""

\* The TypeError the checks of add throw for pluginConfig, "" for none.
ValidateConfig(pluginConfig) ==
  CASE pluginConfig.t # "object" -> ConfigTypeError
    [] TypeOf(pluginConfig.name) # "string" -> NameTypeError
    [] TypeOf(pluginConfig.target) \notin {"undefined", "string"} ->
         TargetTypeError
    [] TypeOf(pluginConfig.options) \notin {"undefined", "object"} ->
         OptionsTypeError
    [] OTHER -> ""

\* The insertion made after the onPluginLoad fan-out r.
InsertAfter(r, pluginConfig) ==
  Result(AddEntry(r.s, pluginConfig), r.trace, r.ret, r.heap)

\* An add that runs the onPluginLoad fan-out before this._pluginMap.set.
addLoadBeforeInsert(s, pluginConfig) ==
  IF ValidateConfig(pluginConfig) # ""
  THEN Result(s, <<>>, Throw(ValidateConfig(pluginConfig)), CallerHeap)
  ELSE AddOutcome(InsertAfter(Lifecycle(s, "onPluginLoad",
                                        TargetString(pluginConfig.name)),
                              pluginConfig))

\* add(pluginConfig) with pluginConfig.instance an object.
add(s, pluginConfig) ==
  IF ValidateConfig(pluginConfig) # ""
  THEN Result(s, <<>>, Throw(ValidateConfig(pluginConfig)), CallerHeap)
  ELSE AddOutcome(Lifecycle(AddEntry(s, pluginConfig), "onPluginLoad",
                            TargetString(pluginConfig.name)))

RECURSIVE AddEach(_, _, _)
\* A loop that goes on to the next pluginConfig after add threw.
AddNextAfterThrow(r, a, pluginConfigs, i) ==
  AddEach(Result(a.s, r.trace \o a.trace, a.ret, a.heap), pluginConfigs, i + 1)

\* One iteration of addAll's loop, a the outcome of this.add(pluginConfig):
\* an exception of add ends addAll.
AddNext(r, a, pluginConfigs, i) ==
  IF Thrown(a) THEN Result(a.s, r.trace \o a.trace, a.ret, a.heap)
  ELSE AddEach(Result(a.s, r.trace \o a.trace, a.ret, a.heap), pluginConfigs,
               i + 1)

\* for (const pluginConfig of pluginConfigs) { this.add(pluginConfig); }
AddEach(r, pluginConfigs, i) ==
  IF i > Len(pluginConfigs)
  THEN Result(r.s, r.trace, Return(Undefined), r.heap)
  ELSE AddNext(r, add(r.s, pluginConfigs[i]), pluginConfigs, i)

\* addAll(pluginConfigs) with pluginConfigs an array.
addAll(s, pluginConfigs) ==
  AddEach(Result(s, <<>>, Return(Undefined), CallerHeap), pluginConfigs, 1)

\* entry.eventProxy.destroy() when the entry holds an EventProxy.
DestroyProxy(b, entry) ==
  IF IsEventProxy(entry.eventProxy) THEN EventProxyDestroy(b, entry.eventProxy)
  ELSE b

\* entry.eventProxy.destroy() throws: the proxy was destroyed before and the
\* library rejects the reuse.
DestroyThrows(s, entry) ==
  IsDestroyed(entry.eventProxy) /\ s.proxyReuse = "throws"

\* An end of remove that deletes the entry also after onPluginUnload threw.
RemoveEntryAlways(r, pluginName) ==
  Result([r.s EXCEPT !.bus = DestroyProxy(@, MapGet(r.s.pluginMap, pluginName)),
                     !.pluginMap = MapDelete(@, pluginName)],
         r.trace, IF Thrown(r) THEN r.ret ELSE Return(Bool(TRUE)), r.heap)

\* The end of remove after its onPluginUnload fan-out r: the proxy is
\* destroyed and the entry deleted.
RemoveEntry(r, pluginName) ==
  IF Thrown(r) THEN r
  ELSE IF DestroyThrows(r.s, MapGet(r.s.pluginMap, pluginName))
  THEN Result(r.s, r.trace, Throw(ProxyDestroyedError), r.heap)
  ELSE
  Result([r.s EXCEPT !.bus = DestroyProxy(@, MapGet(r.s.pluginMap, pluginName)),
                     !.pluginMap = MapDelete(@, pluginName)],
         r.trace, Return(Bool(TRUE)), r.heap)

\* remove(pluginName)
remove(s, pluginName) ==
  IF MapHas(s.pluginMap, pluginName)
  THEN RemoveEntry(Lifecycle(s, "onPluginUnload", TargetString(pluginName)),
                   pluginName)
  ELSE Result(s, <<>>, Return(Bool(FALSE)), CallerHeap)

\* The manager after entry.eventProxy.destroy() for its i-th entry: the
\* entry keeps the destroyed proxy.
DestroyAt(s, i) ==
  [s EXCEPT !.bus = DestroyProxy(@, s.pluginMap[i]),
            !.pluginMap[i].eventProxy =
              IF IsEventProxy(@) THEN Destroyed(@) ELSE @]

RECURSIVE DestroyProxies(_, _)
\* for (const entry of this._pluginMap.values()) { entry.eventProxy.destroy(); }
\* followed by this._pluginMap.clear(); an exception of destroy() leaves the
\* loop with the Map as it is.
DestroyProxies(r, i) ==
  IF i > Len(r.s.pluginMap)
  THEN Result([r.s EXCEPT !.pluginMap = <<>>], r.trace, Return(Undefined), r.heap)
  ELSE IF DestroyThrows(r.s, r.s.pluginMap[i])
  THEN Result(r.s, r.trace, Throw(ProxyDestroyedError), r.heap)
  ELSE DestroyProxies(Result(DestroyAt(r.s, i), r.trace, r.ret, r.heap), i + 1)

\* An end of removeAll that clears the Map and destroys no proxy.
ClearEntriesOnly(r) ==
  IF Thrown(r) THEN r
  ELSE Result([r.s EXCEPT !.pluginMap = <<>>], r.trace, Return(Undefined), r.heap)

\* The end of removeAll after its onPluginUnload fan-out r.
ClearEntries(r) ==
  IF Thrown(r) THEN r ELSE DestroyProxies(r, 1)

\* removeAll()
removeAll(s) == ClearEntries(Lifecycle(s, "onPluginUnload", TargetKeys))

\* enableAllPlugins(enabled)
enableAllPlugins(s, enabled) ==
  Result([s EXCEPT !.pluginMap =
            [i \in 1..Len(@) |-> [@[i] EXCEPT !.enabled = enabled]]],
         <<>>, Return(Undefined), CallerHeap)

\* A toggle that deletes the entry and sets it again: it moves to the end of
\* the Map.
SetEnabledReinserts(map, pluginName, enabled) ==
  IF MapHas(map, pluginName)
  THEN MapSet(MapDelete(map, pluginName), pluginName,
              [MapGet(map, pluginName) EXCEPT !.enabled = enabled])
  ELSE map

\* entry.enabled = enabled for the entry under pluginName, if there is one.
SetEnabled(map, pluginName, enabled) ==
  IF MapHas(map, pluginName)
  THEN MapSet(map, pluginName,
              [MapGet(map, pluginName) EXCEPT !.enabled = enabled])
  ELSE map

\* enablePlugin(pluginName, enabled)
enablePlugin(s, pluginName, enabled) ==
  Result([s EXCEPT !.pluginMap = SetEnabled(@, pluginName, enabled)],
         <<>>, Return(Bool(MapHas(s.pluginMap, pluginName))), CallerHeap)

RECURSIVE EnableEach(_, _, _, _, _)
\* The loop of enablePlugins over pluginNames.
EnableEach(s, pluginNames, i, enabled, success) ==
  IF i > Len(pluginNames)
  THEN Result(s, <<>>, Return(Bool(success)), CallerHeap)
  ELSE EnableEach([s EXCEPT !.pluginMap = SetEnabled(@, pluginNames[i], enabled)],
                  pluginNames, i + 1, enabled,
                  success /\ MapHas(s.pluginMap, pluginNames[i]))

\* enablePlugins(pluginNames, enabled)
enablePlugins(s, pluginNames, enabled) ==
  EnableEach(s, pluginNames, 1, enabled, TRUE)

\* The event names the manager binds its handlers to, without the prefix.
ManagerEventNames ==
  {":add", ":add:all", ":enable:all:plugins", ":enable:plugin",
   ":enable:plugins", ":get:method:names", ":get:options",
   ":get:plugin:method:names", ":get:plugin:names", ":get:plugin:options",
   ":has:method", ":has:plugin", ":has:plugin:method", ":invoke:async",
   ":invoke:sync", ":invoke:sync:event", ":remove", ":remove:all"}

\* The manager's subscriptions under a prefix.
ManagerSubs(prepend) ==
  {Sub(prepend \o name, 0, "manager") : name \in ManagerEventNames}

\* this._eventbus.off(`${prepend}:...`, handler, this), for the 18 handlers.
ManagerOff(b, busId, prepend) ==
  IF busId = NoBus THEN b ELSE [b EXCEPT ![busId] = @ \ ManagerSubs(prepend)]

\* targetEventbus.on(`${eventPrepend}:...`, handler, this), for the 18 handlers.
ManagerOn(b, busId, prepend) ==
  [b EXCEPT ![busId] = @ \cup ManagerSubs(prepend)]

\* entry.eventProxy = new EventProxy(targetEventbus): PluginEntry defines
\* eventProxy with a getter and no setter, and the assignment, made in the
\* strict code of a module, throws a TypeError.
SetterTypeError ==
  "Cannot set property eventProxy of #<PluginEntry> which has only a getter"

\* The loop of setEventbus over this._pluginMap.values() after the
\* onPluginUnload fan-out r.  It ends at its first entry: the entry's proxy
\* is destroyed, then the assignment of the new proxy throws.
ReplaceProxies(r) ==
  IF Thrown(r) THEN r
  ELSE IF DestroyThrows(r.s, r.s.pluginMap[1])
  THEN Result(r.s, r.trace, Throw(ProxyDestroyedError), r.heap)
  ELSE Result(DestroyAt(r.s, 1), r.trace, Throw(SetterTypeError), r.heap)

\* if (this._pluginMap.size > 0) { unload; replace the proxies; load }
Reload(s, targetEventbus) ==
  IF Len(s.pluginMap) > 0
  THEN ReplaceProxies(Lifecycle(s, "onPluginUnload", TargetKeys))
  ELSE Result(s, <<>>, Return(Undefined), CallerHeap)

\* The end of setEventbus: the handlers leave the old bus under the old
\* prefix and are bound to the target bus; r is the outcome of the reload.
Rebind(r, oldEventbus, oldPrepend, targetEventbus, prepend) ==
  IF Thrown(r) THEN r
  ELSE
  Result([r.s EXCEPT
            !.bus = ManagerOn(ManagerOff(@, oldEventbus, oldPrepend),
                              targetEventbus, prepend),
            !.eventbus = targetEventbus],
         r.trace, Return(Undefined), CallerHeap)

\* A setEventbus without the early escape for the bus already bound.
setEventbusAlways(s, targetEventbus, prepend) ==
  Rebind(Reload([s EXCEPT !.eventPrepend = prepend], targetEventbus),
         s.eventbus, s.eventPrepend, targetEventbus, prepend)

\* setEventbus(targetEventbus, eventPrepend)
setEventbus(s, targetEventbus, prepend) ==
  IF targetEventbus = s.eventbus
  THEN Result(s, <<>>, Return(Undefined), CallerHeap)
  ELSE Rebind(Reload([s EXCEPT !.eventPrepend = prepend], targetEventbus),
              s.eventbus, s.eventPrepend, targetEventbus, prepend)

\* setOptions(options)
setOptions(s, opts) ==
  Result([s EXCEPT !.options = opts @@ @], <<>>, Return(Undefined), CallerHeap)

\* The end of destroy after removeAll's outcome r.
Unbind(r, oldEventbus, oldPrepend) ==
  IF Thrown(r) THEN r
  ELSE
  Result([r.s EXCEPT !.bus = ManagerOff(@, oldEventbus, oldPrepend),
                     !.eventbus = NoBus, !.destroyed = TRUE],
         r.trace, Return(Undefined), r.heap)

\* destroy()
destroy(s) == Unbind(removeAll(s), s.eventbus, s.eventPrepend)

(***************************************************************************)
(* getOptions and getPluginOptions.  The objects the manager holds are laid *)
(* out on the heap for the JSON copy: this._options at <<"MO", 0>>, the     *)
(* options object of the i-th entry at <<"PO", i>> = { mode: 1, nested:     *)
(* <<"PON", i>> } with <<"PON", i>> = { level: 1 }.  The object returned is *)
(* <<"RO", 0>>.  A caller then writes to the object it was given; what the  *)
(* manager holds afterwards is read back from the heap.                     *)
(***************************************************************************)
ManagerOptionsId == <<"MO", 0>>
ReturnedId == <<"RO", 0>>

\* The indices of the entries whose options are an object.
WithOptions(map) == {i \in 1..Len(map) : map[i].options # NoOptions}

\* The options object of a pluginConfig: "optA" is { mode: 1, nested: {...} }.
OptionsObject(o, i) ==
  [mode |-> Num(IF o = "optA" THEN 1 ELSE 2), nested |-> Ref(<<"PON", i>>)]

NestedObject(o) == [level |-> Num(IF o = "optA" THEN 1 ELSE 2)]

OptionsHeap(s) ==
  (ManagerOptionsId :> [k \in DOMAIN s.options |-> Bool(s.options[k])]) @@
  [id \in {<<"PO", i>> : i \in WithOptions(s.pluginMap)} |->
     OptionsObject(s.pluginMap[id[2]].options, id[2])] @@
  [id \in {<<"PON", i>> : i \in WithOptions(s.pluginMap)} |->
     NestedObject(s.pluginMap[id[2]].options)] @@
  CallerHeap

\* The options value an entry holds when its object on the heap is obj with
\* the nested object nested.
StoredOptions(o, i, obj, nested) ==
  IF obj = OptionsObject(o, i) /\ nested = NestedObject(o) THEN o ELSE "changed"

\* The manager whose objects are the ones on heap h.
ReadBack(s, h) ==
  [s EXCEPT
     !.options = [k \in DOMAIN @ |-> h[ManagerOptionsId][k] = Bool(TRUE)],
     !.pluginMap =
       [i \in 1..Len(@) |->
          IF i \in WithOptions(@)
          THEN [@[i] EXCEPT !.options = StoredOptions(@, i, h[<<"PO", i>>],
                                                      h[<<"PON", i>>])]
          ELSE @[i]]]

\* getOptions(): return JSON.parse(JSON.stringify(this._options));
getOptions(s) ==
  Result(s, <<>>, Return(Ref(ReturnedId)),
         JSONCopy(OptionsHeap(s), ManagerOptionsId, ReturnedId, 0))

JSONSyntaxError == "SyntaxError"

\* A getPluginOptions that returns entry.options itself.
getPluginOptionsLive(s, pluginName) ==
  IF ~MapHas(s.pluginMap, pluginName)
  THEN Result(s, <<>>, Return(Undefined), CallerHeap)
  ELSE IF MapGet(s.pluginMap, pluginName).options = NoOptions
  THEN Result(s, <<>>, Return(Undefined), CallerHeap)
  ELSE Result(s, <<>>, Return(Ref(<<"PO", MapIndex(s.pluginMap, pluginName)>>)),
              OptionsHeap(s))

\* getPluginOptions(pluginName): result stays undefined without an entry;
\* JSON.parse(JSON.stringify(undefined)) throws a SyntaxError.
getPluginOptions(s, pluginName) ==
  IF ~MapHas(s.pluginMap, pluginName)
  THEN Result(s, <<>>, Return(Undefined), CallerHeap)
  ELSE IF MapGet(s.pluginMap, pluginName).options = NoOptions
  THEN Result(s, <<>>, Throw(JSONSyntaxError), CallerHeap)
  ELSE Result(s, <<>>, Return(Ref(ReturnedId)),
              JSONCopy(OptionsHeap(s),
                       <<"PO", MapIndex(s.pluginMap, pluginName)>>, ReturnedId, 0))

\* The object a caller reaches from object id along path (one or two names).
Reached(h, id, path) == IF Len(path) = 1 THEN id ELSE h[id][path[1]].r

\* returned[path] = v by the caller that received r's value; nothing when r
\* gave no object.
WriteReturned(r, path, v) ==
  IF r.ret.kind = "return" /\ r.ret.v.t = "ref"
  THEN Result(ReadBack(r.s,
                       [r.heap EXCEPT ![Reached(r.heap, r.ret.v.r, path)] =
                          SetField(@, path[Len(path)], v)]),
              r.trace, r.ret,
              [r.heap EXCEPT ![Reached(r.heap, r.ret.v.r, path)] =
                 SetField(@, path[Len(path)], v)])
  ELSE r

(***************************************************************************)
(* hasMethod, hasPluginMethod and getPluginMethodNames.                     *)
(***************************************************************************)
\* A hasMethod that looks at enabled entries only.
hasMethodEnabledOnly(s, methodName) ==
  Result(s, <<>>,
         Return(Bool(\E i \in 1..Len(s.pluginMap) :
                       /\ s.pluginMap[i].enabled
                       /\ IsFunction(s.pluginMap[i].instance, methodName))),
         CallerHeap)

\* hasMethod(methodName): true at the first entry of this._pluginMap.values()
\* with typeof plugin.instance[methodName] === 'function'.
hasMethod(s, methodName) ==
  Result(s, <<>>,
         Return(Bool(\E i \in 1..Len(s.pluginMap) :
                       IsFunction(s.pluginMap[i].instance, methodName))),
         CallerHeap)

\* The functions reached as properties of a PluginEntry: its getters give
\* values, its constructor and what it inherits are functions.
EntryFunctions == InheritedFunctions

\* hasPluginMethod(pluginName, methodName):
\*   plugin instanceof PluginEntry && typeof plugin[methodName] === 'function'
hasPluginMethod(s, pluginName, methodName) ==
  Result(s, <<>>,
         Return(Bool(MapHas(s.pluginMap, pluginName) /\ methodName \in EntryFunctions)),
         CallerHeap)

\* The pairs getPluginMethodNames pushes for one entry: the property names
\* that are functions, without the constructor.
EntryMethodPairs(plugin) ==
  [k \in 1..Len(SelectSeq(s_GET_ALL_PROPERTY_NAMES(plugin.instance),
                          LAMBDA name : /\ IsFunction(plugin.instance, name)
                                        /\ name # "constructor")) |->
     [plugin |-> plugin.name,
      method |-> SelectSeq(s_GET_ALL_PROPERTY_NAMES(plugin.instance),
                           LAMBDA name : /\ IsFunction(plugin.instance, name)
                                         /\ name # "constructor")[k]]]

RECURSIVE PluginMethodPairs(_, _, _)
\* The loop of getPluginMethodNames over this._pluginMap.values().
PluginMethodPairs(map, enabled, i) ==
  IF i > Len(map) THEN <<>>
  ELSE IF enabled = "undefined" \/ Bool(map[i].enabled) = Bool(enabled)
  THEN EntryMethodPairs(map[i]) \o PluginMethodPairs(map, enabled, i + 1)
  ELSE PluginMethodPairs(map, enabled, i + 1)

\* getPluginMethodNames(enabled): enabled is "undefined", TRUE or FALSE.
getPluginMethodNames(s, enabled) == PluginMethodPairs(s.pluginMap, enabled, 1)

(***************************************************************************)
(* The handlers bound to the bus commands.  Sixteen of the eighteen are the *)
(* public methods themselves; add, add:all, remove and remove:all go        *)
(* through the wrappers below, which read noEventAdd and noEventRemoval.    *)
(***************************************************************************)
\* _addEventbus(pluginName)
\*   return !this._options.noEventAdd ? this.add(pluginName) : false;
_addEventbus(s, pluginConfig) ==
  IF ~s.options.noEventAdd THEN add(s, pluginConfig)
  ELSE Result(s, <<>>, Return(Bool(FALSE)), CallerHeap)

\* A function body that ends without a return statement after the call r:
\* an exception of r propagates, otherwise the result is undefined.
ReturnsNothing(r) ==
  IF Thrown(r) THEN r ELSE Result(r.s, r.trace, Return(Undefined), r.heap)

\* _addAllEventbus(): it declares no parameter and calls this.addAll(), whose
\* pluginConfigs defaults to [].
_addAllEventbus(s) ==
  IF ~s.options.noEventAdd THEN ReturnsNothing(addAll(s, <<>>))
  ELSE Result(s, <<>>, Return(Undefined), CallerHeap)

\* A wrapper that forgets the option: return this.remove(pluginName).
_removeEventbusUnguarded(s, pluginName) == remove(s, pluginName)

\* _removeEventbus(pluginName)
\*   return !this._options.noEventRemoval ? this.remove(pluginName) : false;
_removeEventbus(s, pluginName) ==
  IF ~s.options.noEventRemoval THEN remove(s, pluginName)
  ELSE Result(s, <<>>, Return(Bool(FALSE)), CallerHeap)

\* _removeAllEventbus()
_removeAllEventbus(s) ==
  IF ~s.options.noEventRemoval THEN ReturnsNothing(removeAll(s))
  ELSE Result(s, <<>>, Return(Undefined), CallerHeap)

\* Whether the manager's handler for the command is subscribed on bus busId
\* under the event name prepend + command.
ManagerListens(b, busId, prepend, command) ==
  /\ busId # NoBus
  /\ Sub(prepend \o command, 0, "manager") \in b[busId]

\* getPluginNames(enabled): enabled is "undefined", TRUE or FALSE.
getPluginNames(s, enabled) ==
  IF enabled = "undefined" THEN MapKeys(s.pluginMap)
  ELSE MapKeys(SelectSeq(s.pluginMap, LAMBDA e : Bool(e.enabled) = Bool(enabled)))

(***************************************************************************)
(* The state machine: one action per public operation.  last records the    *)
(* latest call: its name and arguments, the plugin method invocations it    *)
(* made, its outcome and the payload heap after it.                         *)
(***************************************************************************)
(***************************************************************************)
(* The manager after destroy(): this._pluginMap and this._eventbus are null *)
(* and the registry of the model is empty.                                  *)
(***************************************************************************)
DestroyedError == "This PluginManager instance has been destroyed."

\* The TypeError of a property read on null.
NullMapTypeError == "Cannot read property of null"

\* if (this._pluginMap === null) { throw new ReferenceError(...); }
DestroyedCheck(s) == Result(s, <<>>, Throw(DestroyedError), CallerHeap)

\* The methods whose first statement is the check and whose parameters have
\* no default that reads this._pluginMap.
GuardedCalls ==
  {"add", "addAll", "destroy", "enableAllPlugins", "enablePlugin",
   "enablePlugins", "getEventbus", "getMethodNames", "getOptions",
   "getPluginMethodNames", "getPluginNames", "getPluginOptions", "hasMethod",
   "hasPlugin", "hasPluginMethod", "setEventbus", "remove", "removeAll"}

\* invokeSync and invokeAsync on a destroyed manager: the default of
\* nameOrList, this._pluginMap.keys(), is evaluated before the check.
invokeDestroyed(s, nameOrList) ==
  IF nameOrList = TargetKeys
  THEN Result(s, <<>>, Throw(NullMapTypeError), CallerHeap)
  ELSE DestroyedCheck(s)

\* invokeSyncEvent on a destroyed manager: it has no check; the default of
\* nameOrList reads this._pluginMap.keys(), and s_INVOKE_SYNC_EVENTS reads
\* pluginMap.get(name) for a name and for each element of a list.
invokeSyncEventDestroyed(s, methodName, copyProps, passthruProps, nameOrList) ==
  IF nameOrList = TargetKeys \/ nameOrList.t = "string" \/ nameOrList.list # <<>>
  THEN Result(s, <<>>, Throw(NullMapTypeError), CallerHeap)
  ELSE invokeSyncEvent(s, methodName, copyProps, passthruProps, nameOrList)

(***************************************************************************)
(* The simple dispatcher of dist/PluginManager.js: addPlugin and invoke     *)
(* over the array this._plugins, with the PluginEvent of dist/PluginEvent.js.*)
(***************************************************************************)
AddPluginTypeError == "addPlugin error: plugin is not an object"

\* addPlugin(plugin)
addPlugin(s, plugin) ==
  IF TypeOf(plugin) # "object"
  THEN Result(s, <<>>, Throw(AddPluginTypeError), CallerHeap)
  ELSE Result([s EXCEPT !._plugins = Append(@, plugin)], <<>>, Return(Undefined),
              CallerHeap)

\* A constructor that never copies: this.data = data.
DistPluginEventShared(h, data, copy) ==
  [heap |-> h, ev |-> [NoEvent EXCEPT !.n = 1, !.data = data]]

\* new PluginEvent(data, copy): this.data = copy ? s_COPY(data) : data
DistPluginEvent(h, data, copy) ==
  IF copy
  THEN [heap |-> JSONCopy(h, data, CopyId(data, 1), 1),
        ev |-> [NoEvent EXCEPT !.n = 1, !.data = CopyId(data, 1)]]
  ELSE [heap |-> h, ev |-> [NoEvent EXCEPT !.n = 1, !.data = data]]

\* The element plugin of this._plugins as the object whose method is called;
\* it has no name, proxy or options.
DistPlugin(plugin) == PluginEntry("undefined", "instance", plugin, NoProxy, NoOptions)

\* The first loop of invoke: some plugin holds a function under methodName.
DistHasMethod(plugs, methodName) ==
  \E cntr \in 1..Len(plugs) : IsFunction(plugs[cntr], methodName)

RECURSIVE DistInvokeEach(_, _, _, _)
\* The second loop of invoke from index cntr on; an exception of a plugin
\* method ends it.
DistInvokeEach(w, plugs, methodName, cntr) ==
  IF cntr > Len(plugs) \/ w.thrown THEN w
  ELSE IF IsFunction(plugs[cntr], methodName)
    THEN DistInvokeEach(PluginMethodEvent(w, DistPlugin(plugs[cntr]), methodName,
                                          w.ev),
                        plugs, methodName, cntr + 1)
  ELSE DistInvokeEach(w, plugs, methodName, cntr + 1)

\* The world of the second loop with the event e; the dispatcher has no
\* registry and no bus.
DistWorld(s, e) ==
  [World(s, e.heap) EXCEPT !.ev = e.ev, !.map = <<>>,
                           !.bus = [b \in Buses |-> {}]]

\* What invoke returns after the loop w: the event.
DistOutcome(s, w) ==
  IF w.thrown THEN Result(s, w.trace, Throw(PluginError), w.heap)
  ELSE Result(s, w.trace, ReturnData(w.ev.data), w.heap)

InvokeTypeError == "invoke error: methodName is not a string."

\* invoke(methodName, data = {}, copy = true)
invoke(s, methodName, data, copy) ==
  IF TypeOf(methodName) # "string"
  THEN Result(s, <<>>, Throw(InvokeTypeError), CallerHeap)
  ELSE IF DistHasMethod(s._plugins, methodName)
  THEN DistOutcome(s, DistInvokeEach(DistWorld(s, DistPluginEvent(CallerHeap,
                                                                   data, copy)),
                                     s._plugins, methodName, 1))
  ELSE Result(s, <<>>, Return(Null), CallerHeap)

State ==
  [pluginMap |-> pluginMap, eventbus |-> eventbus, eventPrepend |-> eventPrepend,
   options |-> options, bus |-> bus, nextProxy |-> nextProxy,
   destroyed |-> destroyed, proxyReuse |-> proxyReuse, _plugins |-> _plugins]

DefaultOptions ==
  [noEventAdd |-> FALSE, noEventRemoval |-> FALSE, throwNoMethod |-> FALSE,
   throwNoPlugin |-> FALSE]

\* new PluginManager() with no options.
InitState ==
  [pluginMap |-> <<>>, eventbus |-> NoBus, eventPrepend |-> NoPrepend,
   options |-> DefaultOptions, bus |-> [b \in Buses |-> {}], nextProxy |-> 1,
   destroyed |-> FALSE, _plugins |-> <<>>]

Call(op, args, r) ==
  /\ pluginMap' = r.s.pluginMap
  /\ eventbus' = r.s.eventbus
  /\ eventPrepend' = r.s.eventPrepend
  /\ options' = r.s.options
  /\ bus' = r.s.bus
  /\ nextProxy' = r.s.nextProxy
  /\ destroyed' = r.s.destroyed
  /\ last' = [op |-> op, args |-> args, trace |-> r.trace, ret |-> r.ret,
              heap |-> r.heap]
  /\ _plugins' = r.s._plugins
  /\ UNCHANGED <<settled, proxyReuse>>

Init ==
  /\ pluginMap = InitState.pluginMap
  /\ eventbus = InitState.eventbus
  /\ eventPrepend = InitState.eventPrepend
  /\ options = InitState.options
  /\ bus = InitState.bus
  /\ nextProxy = InitState.nextProxy
  /\ destroyed = InitState.destroyed
  /\ last = [op |-> "new", args |-> <<>>, trace |-> <<>>,
             ret |-> Return(Undefined), heap |-> CallerHeap]
  /\ settled = "pending"
  /\ proxyReuse \in ProxyReuseOutcomes
  /\ _plugins = <<>>

\* The pluginConfig objects callers pass to add.
Config(t, name, target, instance, opts) ==
  [t |-> t, name |-> name, target |-> target, instance |-> instance,
   options |-> opts]

\* The well-formed ones.
GoodConfigs ==
  {Config("object", n, "undefined", c[1], c[2]) :
     n \in Names, c \in {<<"i1", "optA">>, <<"i2", NoOptions>>, <<"i3", NoOptions>>}}

\* The well-formed ones whose instance has a lifecycle hook that throws.
ThrowingConfigs ==
  {Config("object", n, "undefined", i, NoOptions) :
     n \in Names, i \in ThrowingInstances}

\* The well-formed ones whose instance publishes a command.
PublishingConfigs ==
  {Config("object", n, "undefined", i, NoOptions) :
     n \in Names, i \in PublishingInstances}

\* The ones add rejects: no pluginConfig, a name, target or options of the
\* wrong type.
BadConfigs ==
  {Config("undefined", "undefined", "undefined", "undefined", "undefined"),
   Config("object", NotTyped, "undefined", "i1", "optA"),
   Config("object", "a", NotTyped, "i1", "optA"),
   Config("object", "a", "undefined", "i1", NotTyped)}

PluginConfigs == GoodConfigs \cup BadConfigs

\* The arrays callers pass to addAll.
ConfigLists ==
  {<<Config("object", "a", "undefined", "i1", "optA"),
     Config("object", "b", "undefined", "i1", NotTyped),
     Config("object", "b", "undefined", "i2", NoOptions)>>,
   <<Config("object", "b", "undefined", "i2", NoOptions),
     Config("object", "a", "undefined", "i1", "optA")>>}

\* The nameOrList arguments callers pass.
NameLists == {<<"b", "a">>, <<"a", "a">>}
Targets ==
  {TargetKeys, TargetString("a")} \cup {TargetList(l) : l \in NameLists}

\* The options objects callers pass to setOptions.
OptionsArgs ==
  {[throwNoPlugin |-> p, throwNoMethod |-> m] : p, m \in BOOLEAN}

Add ==
  \E pluginConfig \in PluginConfigs :
    /\ ~destroyed
    /\ eventbus # NoBus => nextProxy <= MaxProxies
    /\ Call("add", pluginConfig, add(State, pluginConfig))

\* add of a plugin whose onPluginLoad or onPluginUnload throws.
AddThrowing ==
  \E pluginConfig \in ThrowingConfigs :
    /\ ~destroyed
    /\ eventbus # NoBus => nextProxy <= MaxProxies
    /\ Call("add", pluginConfig, add(State, pluginConfig))

\* add of a plugin whose test publishes a command of the manager.
AddPublishing ==
  \E pluginConfig \in PublishingConfigs :
    /\ ~destroyed
    /\ eventbus # NoBus => nextProxy <= MaxProxies
    /\ Call("add", pluginConfig, add(State, pluginConfig))

AddAll ==
  \E pluginConfigs \in ConfigLists :
    /\ ~destroyed
    /\ eventbus # NoBus => nextProxy + Len(pluginConfigs) - 1 <= MaxProxies
    /\ Call("addAll", [configs |-> pluginConfigs], addAll(State, pluginConfigs))

Remove ==
  \E pluginName \in Names :
    /\ ~destroyed
    /\ Call("remove", [name |-> pluginName], remove(State, pluginName))

RemoveAll ==
  /\ ~destroyed
  /\ Call("removeAll", <<>>, removeAll(State))

EnableAllPlugins ==
  \E enabled \in BOOLEAN :
    /\ ~destroyed
    /\ Call("enableAllPlugins", [enabled |-> enabled],
            enableAllPlugins(State, enabled))

EnablePlugin ==
  \E pluginName \in Names, enabled \in BOOLEAN :
    /\ ~destroyed
    /\ Call("enablePlugin", [name |-> pluginName, enabled |-> enabled],
            enablePlugin(State, pluginName, enabled))

EnablePlugins ==
  \E pluginNames \in NameLists, enabled \in BOOLEAN :
    /\ ~destroyed
    /\ Call("enablePlugins", [names |-> pluginNames, enabled |-> enabled],
            enablePlugins(State, pluginNames, enabled))

InvokeSync ==
  \E nameOrList \in Targets, methodName \in MethodNames :
    /\ ~destroyed
    /\ Call("invokeSync", [nameOrList |-> nameOrList, methodName |-> methodName],
            invokeSync(State, nameOrList, methodName))

InvokeAsync ==
  \E nameOrList \in Targets, methodName \in MethodNames :
    /\ ~destroyed
    /\ Call("invokeAsync", [nameOrList |-> nameOrList, methodName |-> methodName],
            invokeAsync(State, nameOrList, methodName))

InvokeSyncEvent ==
  \E nameOrList \in Targets, methodName \in MethodNames,
     copyProps \in CopyArgs, passthruProps \in PassthruArgs :
    /\ ~destroyed
    /\ Call("invokeSyncEvent",
            [nameOrList |-> nameOrList, methodName |-> methodName,
             copyProps |-> copyProps, passthruProps |-> passthruProps],
            invokeSyncEvent(State, methodName, copyProps, passthruProps,
                            nameOrList))

SetEventbus ==
  \E targetEventbus \in Buses, prepend \in Prepends :
    /\ ~destroyed
    /\ Call("setEventbus", [eventbus |-> targetEventbus, prepend |-> prepend],
            setEventbus(State, targetEventbus, prepend))

SetOptions ==
  \E opts \in OptionsArgs :
    /\ ~destroyed
    /\ Call("setOptions", opts, setOptions(State, opts))

Destroy ==
  /\ ~destroyed
  /\ Call("destroy", <<>>, destroy(State))

\* The method names callers ask hasMethod and hasPluginMethod about.
QueryNames == {"test", "test2", "onPluginUnload", "toString", "missing"}

HasMethod ==
  \E methodName \in QueryNames :
    /\ ~destroyed
    /\ Call("hasMethod", [methodName |-> methodName], hasMethod(State, methodName))

HasPluginMethod ==
  \E pluginName \in Names, methodName \in QueryNames :
    /\ ~destroyed
    /\ Call("hasPluginMethod", [name |-> pluginName, methodName |-> methodName],
            hasPluginMethod(State, pluginName, methodName))

\* getOptions() by a caller that then sets a flag on the object returned.
GetOptions ==
  \E k \in {"throwNoPlugin", "noEventAdd"} :
    /\ ~destroyed
    /\ Call("getOptions", [write |-> <<k>>],
            WriteReturned(getOptions(State), <<k>>, Bool(~options[k])))

\* The writes a caller makes to the options object getPluginOptions returned:
\* returned.mode = 2, returned.nested.level = 2.
OptionsWrites == {<<"mode">>, <<"nested", "level">>}

GetPluginOptions ==
  \E pluginName \in Names, path \in OptionsWrites :
    /\ ~destroyed
    /\ Call("getPluginOptions", [name |-> pluginName, write |-> path],
            WriteReturned(getPluginOptions(State, pluginName), path, Num(2)))

\* The options objects callers pass to setOptions to open and close the bus
\* commands.
EventOptionsArgs ==
  {[noEventAdd |-> a, noEventRemoval |-> r] : a, r \in BOOLEAN}

SetEventOptions ==
  \E opts \in EventOptionsArgs :
    /\ ~destroyed
    /\ Call("setOptions", opts, setOptions(State, opts))

\* The pluginConfig objects published with '<prefix>:add'.
EventConfigs ==
  {Config("object", "a", "undefined", "i1", "optA"),
   Config("object", "b", "undefined", "i2", NoOptions),
   Config("object", "b", "undefined", "i1", NotTyped)}

\* eventbus.triggerSync('<prefix>:add', pluginConfig) on a bus where the
\* manager listens: the bus calls this._addEventbus(pluginConfig).
AddEventbus ==
  \E b \in Buses, prepend \in Prepends, pluginConfig \in EventConfigs :
    /\ ~destroyed
    /\ ManagerListens(bus, b, prepend, ":add")
    /\ nextProxy <= MaxProxies
    /\ Call(":add", [event |-> prepend \o ":add", config |-> pluginConfig],
            _addEventbus(State, pluginConfig))

\* eventbus.triggerSync('<prefix>:add:all', pluginConfigs)
AddAllEventbus ==
  \E b \in Buses, prepend \in Prepends, pluginConfigs \in ConfigLists :
    /\ ~destroyed
    /\ ManagerListens(bus, b, prepend, ":add:all")
    /\ Call(":add:all",
            [event |-> prepend \o ":add:all", configs |-> pluginConfigs],
            _addAllEventbus(State))

\* eventbus.triggerSync('<prefix>:remove', pluginName)
RemoveEventbus ==
  \E b \in Buses, prepend \in Prepends, pluginName \in Names :
    /\ ~destroyed
    /\ ManagerListens(bus, b, prepend, ":remove")
    /\ Call(":remove", [event |-> prepend \o ":remove", name |-> pluginName],
            _removeEventbus(State, pluginName))

\* eventbus.triggerSync('<prefix>:remove:all')
RemoveAllEventbus ==
  \E b \in Buses, prepend \in Prepends :
    /\ ~destroyed
    /\ ManagerListens(bus, b, prepend, ":remove:all")
    /\ Call(":remove:all", [event |-> prepend \o ":remove:all"],
            _removeAllEventbus(State))

\* eventbus.triggerSync('<prefix>:enable:plugin', pluginName, enabled): the
\* handler is this.enablePlugin itself.
EnablePluginEvent ==
  \E b \in Buses, prepend \in Prepends, pluginName \in Names, enabled \in BOOLEAN :
    /\ ~destroyed
    /\ ManagerListens(bus, b, prepend, ":enable:plugin")
    /\ Call(":enable:plugin",
            [event |-> prepend \o ":enable:plugin", name |-> pluginName,
             enabled |-> enabled],
            enablePlugin(State, pluginName, enabled))

\* The plugin i3 settles its promise.
\* The method names, data objects and copy flags callers pass to invoke; an
\* omitted argument takes its default.
DistMethodNames == {"test", "test2", "nop", NotTyped}
DistData == {<<"E", 0>>, <<"C", 0>>}
DistCopy == {TRUE, FALSE}

AddPlugin ==
  \E plugin \in Instances \cup {NotTyped} :
    /\ Len(_plugins) < MaxPlugins
    /\ Call("addPlugin", [plugin |-> plugin], addPlugin(State, plugin))

Invoke ==
  \E methodName \in DistMethodNames, data \in DistData, copy \in DistCopy :
    Call("invoke", [methodName |-> methodName, data |-> data, copy |-> copy],
         invoke(State, methodName, data, copy))

\* The calls on a destroyed manager.  A target may also be the empty list.
DestroyedTargets == Targets \cup {TargetList(<<>>)}

GuardedAfterDestroy ==
  \E op \in GuardedCalls :
    /\ destroyed
    /\ Call(op, <<>>, DestroyedCheck(State))

InvokeAfterDestroy ==
  \E op \in {"invokeSync", "invokeAsync"}, nameOrList \in DestroyedTargets,
     methodName \in MethodNames :
    /\ destroyed
    /\ Call(op, [nameOrList |-> nameOrList, methodName |-> methodName],
            invokeDestroyed(State, nameOrList))

InvokeSyncEventAfterDestroy ==
  \E nameOrList \in DestroyedTargets, methodName \in MethodNames,
     copyProps \in CopyArgs, passthruProps \in PassthruArgs :
    /\ destroyed
    /\ Call("invokeSyncEvent",
            [nameOrList |-> nameOrList, methodName |-> methodName,
             copyProps |-> copyProps, passthruProps |-> passthruProps],
            invokeSyncEventDestroyed(State, methodName, copyProps,
                                     passthruProps, nameOrList))

Settle ==
  \E st \in {"resolved", "rejected"} :
    /\ settled = "pending"
    /\ settled' = st
    /\ UNCHANGED <<pluginMap, eventbus, eventPrepend, options, bus, nextProxy,
                   destroyed, last, proxyReuse, _plugins>>

Next ==
  \/ Add
  \/ AddAll
  \/ Settle
  \/ Remove
  \/ RemoveAll
  \/ EnableAllPlugins
  \/ EnablePlugin
  \/ EnablePlugins
  \/ InvokeSync
  \/ InvokeAsync
  \/ InvokeSyncEvent
  \/ SetEventbus
  \/ SetOptions
  \/ GetOptions
  \/ GetPluginOptions
  \/ HasMethod
  \/ HasPluginMethod
  \/ SetEventOptions
  \/ AddEventbus
  \/ AddAllEventbus
  \/ RemoveEventbus
  \/ RemoveAllEventbus
  \/ EnablePluginEvent
  \/ Destroy
  \/ AddPlugin
  \/ Invoke
  \/ GuardedAfterDestroy
  \/ InvokeAfterDestroy
  \/ InvokeSyncEventAfterDestroy
  \/ AddThrowing
  \/ AddPublishing

Spec == Init /\ [][Next]_vars

\* The registry and the three dispatch protocols of a manager without bus.
NextDispatch ==
  \/ Add
  \/ Remove
  \/ EnableAllPlugins
  \/ EnablePlugin
  \/ EnablePlugins
  \/ InvokeSync
  \/ InvokeAsync
  \/ InvokeSyncEvent
  \/ SetOptions

SpecDispatch == Init /\ [][NextDispatch]_vars

\* The registry and the binding of the manager and its entries to a bus.
NextBus ==
  \/ Add
  \/ Remove
  \/ RemoveAll
  \/ EnableAllPlugins
  \/ EnablePlugin
  \/ EnablePlugins
  \/ SetEventbus
  \/ Destroy

SpecBus == Init /\ [][NextBus]_vars

\* Registration, removal and rebinding under every setting of the options.
NextLifecycle ==
  \/ Add
  \/ Remove
  \/ RemoveAll
  \/ EnableAllPlugins
  \/ SetEventbus
  \/ SetOptions

SpecLifecycle == Init /\ [][NextLifecycle]_vars

\* invokeAsync over plugins whose results settle later.
NextAsync ==
  \/ Add
  \/ Remove
  \/ EnablePlugin
  \/ SetOptions
  \/ InvokeSync
  \/ InvokeAsync
  \/ Settle

SpecAsync == Init /\ [][NextAsync]_vars

\* Registration one by one and in bulk, with and without a bus.
NextRegister ==
  \/ Add
  \/ AddAll
  \/ Remove
  \/ SetEventbus

SpecRegister == Init /\ [][NextRegister]_vars

\* The manager driven through the commands of its bus and directly, with the
\* commands open and closed.
NextCommands ==
  \/ AddAll
  \/ Remove
  \/ RemoveAll
  \/ SetEventbus
  \/ SetEventOptions
  \/ AddEventbus
  \/ AddAllEventbus
  \/ RemoveEventbus
  \/ RemoveAllEventbus
  \/ EnablePluginEvent

SpecCommands == Init /\ [][NextCommands]_vars

\* The queries of the manager, between registrations and changes of the
\* options and the enabled flags.
NextQueries ==
  \/ Add
  \/ Remove
  \/ EnablePlugin
  \/ SetOptions
  \/ GetOptions
  \/ GetPluginOptions
  \/ HasMethod
  \/ HasPluginMethod

SpecQueries == Init /\ [][NextQueries]_vars

\* Event dispatch over entries that hold proxies of a bound bus.
NextEvents ==
  \/ Add
  \/ SetEventbus
  \/ InvokeSyncEvent

SpecEvents == Init /\ [][NextEvents]_vars

\* A manager with a bus that is destroyed and called afterwards.
NextDestroyed ==
  \/ Add
  \/ SetEventbus
  \/ Destroy
  \/ GuardedAfterDestroy
  \/ InvokeAfterDestroy
  \/ InvokeSyncEventAfterDestroy

SpecDestroyed == Init /\ [][NextDestroyed]_vars

\* A manager with plugins whose lifecycle hooks throw.
NextThrowing ==
  \/ Add
  \/ AddThrowing
  \/ Remove
  \/ EnablePlugin
  \/ SetEventbus

SpecThrowing == Init /\ [][NextThrowing]_vars

\* A manager with plugins that publish a command during a fan-out.
NextReentrant ==
  \/ Add
  \/ AddPublishing
  \/ SetEventbus
  \/ InvokeSync

SpecReentrant == Init /\ [][NextReentrant]_vars

\* The simple dispatcher.
NextSimple ==
  \/ AddPlugin
  \/ Invoke

SpecSimple == Init /\ [][NextSimple]_vars

(***************************************************************************)
(* Properties.                                                              *)
(***************************************************************************)
DispatchOps == {"invokeSync", "invokeAsync", "invokeSyncEvent"}

\* The names of the plugins a call invoked, in invocation order.
TraceNames(trace) == [i \in 1..Len(trace) |-> trace[i].plugin]

\* The values the invoked methods returned, in invocation order.
TraceReturns(trace) ==
  [i \in 1..Len(trace) |-> MethodReturn(trace[i].instance, trace[i].method)]

\* The entries of the registry that are enabled and expose methodName.
EnabledWithMethod(methodName) ==
  SelectSeq(pluginMap,
            LAMBDA e : e.enabled /\ methodName \in InstanceMethods(e.instance))

\* The latest call ended because a plugin method threw.
PluginThrew == last.ret.err = PluginError

\* C1: a dispatch with the target omitted, when no plugin method throws,
\* invokes the named method exactly once on every enabled entry exposing it,
\* in registration order, and on no other entry.
C1_OmittedTargetVisitsInOrder ==
  (/\ last.op \in DispatchOps
   /\ last.args.nameOrList = TargetKeys
   /\ ~PluginThrew) =>
    /\ TraceNames(last.trace) = MapKeys(EnabledWithMethod(last.args.methodName))
    /\ \A i \in 1..Len(last.trace) : last.trace[i].method = last.args.methodName

C1_Witness ==
  /\ last.op = "invokeSyncEvent"
  /\ last.args.nameOrList = TargetKeys
  /\ Len(pluginMap) = 2
  /\ pluginMap[1].name = "b"
  /\ TraceNames(last.trace) = <<"b", "a">>

\* C2: no dispatch, whatever its target, invokes a method of a disabled
\* entry, and getPluginNames() without filter still lists the entry.
C2_DisabledIsInvisible ==
  \A i \in 1..Len(pluginMap) :
    ~pluginMap[i].enabled =>
      /\ last.op \in DispatchOps =>
           \A j \in 1..Len(last.trace) : last.trace[j].plugin # pluginMap[i].name
      /\ \E k \in 1..Len(getPluginNames(State, "undefined")) :
           getPluginNames(State, "undefined")[k] = pluginMap[i].name

C2_Witness ==
  /\ last.op \in DispatchOps
  /\ last.args.nameOrList = TargetList(<<"b", "a">>)
  /\ MapHas(pluginMap, "a") /\ MapHas(pluginMap, "b")
  /\ ~MapGet(pluginMap, "b").enabled
  /\ last.args.methodName \in InstanceMethods(MapGet(pluginMap, "b").instance)
  /\ TraceNames(last.trace) = <<"a">>

\* The subscriptions on any bus made through a proxy handed to the plugin
\* registered under name.
SubsVia(name) == {x \in UNION {bus[b] : b \in Buses} : x.via = name}

\* Every subscription recorded by the proxy of a registered entry is on the
\* bus the proxy wraps.
RegisteredSubsIntact ==
  \A i \in 1..Len(pluginMap) :
    \A e \in pluginMap[i].eventProxy.events :
      \E x \in bus[pluginMap[i].eventProxy.eventbus] : <<x.ev, x.cb>> = e

\* C3: once remove(name) has returned true the bus carries no subscription
\* made through a proxy handed to a plugin registered under that name, and
\* the subscriptions of the plugins still registered are all on the bus.
C3_RemoveLeavesNoSubscription ==
  (last.op = "remove" /\ last.ret = Return(Bool(TRUE))) =>
    /\ SubsVia(last.args.name) = {}
    /\ RegisteredSubsIntact

NonNullReturns(trace) ==
  SelectSeq(TraceReturns(trace), LAMBDA v : v # Null /\ v # Undefined)

\* C5: invokeSync collects only the return values that are neither null nor
\* undefined: no array it returns holds null or undefined, and one non-null
\* value among several invocations is returned as itself.
C5_OnlyNonNullCollected ==
  (last.op = "invokeSync" /\ last.ret.kind = "return") =>
    /\ last.ret.isArray =>
         \A i \in 1..Len(last.ret.arr) :
           last.ret.arr[i] # Null /\ last.ret.arr[i] # Undefined
    /\ (Len(last.trace) >= 2 /\ Len(NonNullReturns(last.trace)) = 1) =>
         last.ret = Return(NonNullReturns(last.trace)[1])

\* The payload a call of invokeSyncEvent returned.
ReturnedPayload == last.heap[last.ret.data]

\* C6: the payload invokeSyncEvent returns carries the number of invoked
\* methods and the invoked plugin names in order, whatever a plugin wrote to
\* these fields; with nothing invoked and no data passed it holds only them.
C6_MetaData ==
  (last.op = "invokeSyncEvent" /\ last.ret.kind = "return") =>
    /\ ReturnedPayload["$$plugin_invoke_count"] = Num(Len(last.trace))
    /\ ReturnedPayload["$$plugin_invoke_names"] = Arr(TraceNames(last.trace))
    /\ (/\ Len(last.trace) = 0
        /\ last.args.copyProps = <<"E", 0>>
        /\ last.args.passthruProps = <<"E", 0>>) =>
         /\ DOMAIN ReturnedPayload =
              {"$$plugin_invoke_count", "$$plugin_invoke_names"}
         /\ ReturnedPayload["$$plugin_invoke_names"] = Arr(<<>>)

C6_Witness ==
  /\ last.op = "invokeSyncEvent"
  /\ last.ret.kind = "return"
  /\ Len(last.trace) = 2
  /\ last.trace[1].instance = "i2"

\* C7: all the targets of one invokeSyncEvent receive the same envelope and
\* payload object: the i-th invoked plugin reads the count the i-1 plugins
\* before it left, and the returned payload is that object, its count the
\* number of plugins invoked.
C7_SharedEnvelope ==
  last.op = "invokeSyncEvent" =>
    /\ \A i \in 1..Len(last.trace) :
         /\ last.trace[i].ev.n = last.trace[1].ev.n
         /\ last.trace[i].ev.data = last.trace[1].ev.data
         /\ last.trace[i].seen # -1 => last.trace[i].seen = i - 1
    /\ (last.ret.kind = "return" /\ Len(last.trace) > 0) =>
         /\ last.ret.data = last.trace[1].ev.data
         /\ HasField(ReturnedPayload, "result") =>
              SeenCount(last.heap, last.ret.data) = Len(last.trace)

C7_Witness ==
  /\ last.op = "invokeSyncEvent"
  /\ last.args.copyProps = <<"C", 0>>
  /\ last.ret.kind = "return"
  /\ Len(last.trace) = 2
  /\ last.trace[2].seen = 1
  /\ SeenCount(last.heap, last.ret.data) = 2

\* C8: data passed as copyProps is unchanged by the dispatch, nested objects
\* included, and receives no meta data field.
C8_CopyLeavesOriginal ==
  (last.op = "invokeSyncEvent" /\ last.args.copyProps = <<"C", 0>>) =>
    /\ last.heap[<<"C", 0>>] = CallerHeap[<<"C", 0>>]
    /\ last.heap[<<"CN", 0>>] = CallerHeap[<<"CN", 0>>]

C8_Witness ==
  /\ last.op = "invokeSyncEvent"
  /\ last.args.copyProps = <<"C", 0>>
  /\ last.args.passthruProps = <<"E", 0>>
  /\ last.ret.kind = "return"
  /\ \E i \in 1..Len(last.trace) : last.trace[i].instance = "i2"
  /\ SeenCount(last.heap, last.ret.data) = 2

\* C9 as stated: every mutation a plugin makes to the payload, of a
\* top-level property or of a nested object, shows on the object passed as
\* passthruProps.
C9_PassthruReflectsAll ==
  (/\ last.op = "invokeSyncEvent"
   /\ last.args.passthruProps = <<"P", 0>>
   /\ last.ret.kind = "return") =>
    /\ SeenCount(last.heap, <<"P", 0>>) = SeenCount(last.heap, last.ret.data)
    /\ last.heap[<<"P", 0>>]["count"] = ReturnedPayload["count"]

\* C9 amended: every change a plugin makes to a nested object of
\* passthruProps shows on the caller's object, while the top-level
\* properties of the caller's object stay as they were: the payload is an
\* object of its own.
C9_PassthruReflectsNested ==
  (last.op = "invokeSyncEvent" /\ last.args.passthruProps = <<"P", 0>>) =>
    /\ ~PluginThrew => last.heap[<<"PN", 0>>]["count"] = Num(Len(last.trace))
    /\ last.heap[<<"P", 0>>] = CallerHeap[<<"P", 0>>]
    /\ last.ret.kind = "return" =>
         ReturnedPayload["result"] = Ref(<<"PN", 0>>)

C9_Witness ==
  /\ last.op = "invokeSyncEvent"
  /\ last.args.passthruProps = <<"P", 0>>
  /\ last.ret.kind = "return"
  /\ \E i \in 1..Len(last.trace) : last.trace[i].instance = "i2"
  /\ last.heap[<<"PN", 0>>]["count"] = Num(2)
  /\ ReturnedPayload["count"] = Num(1)

\* The positions in trace of the calls of methodName on the plugin name.
CallsOf(trace, name, methodName) ==
  {j \in 1..Len(trace) : trace[j].plugin = name /\ trace[j].method = methodName}

\* C10: a setEventbus to another bus invokes onPluginUnload once and then
\* onPluginLoad once on every registered entry exposing them, enabled or
\* not, the unloads with the old proxies and the loads with the new ones.
C10_RebindReloadsEveryEntry ==
  [][(last'.op = "setEventbus" /\ last'.args.eventbus # eventbus) =>
       \A i \in 1..Len(pluginMap) :
         /\ "onPluginUnload" \in InstanceMethods(pluginMap[i].instance) =>
              \E j \in 1..Len(last'.trace) :
                /\ CallsOf(last'.trace, pluginMap[i].name, "onPluginUnload") = {j}
                /\ last'.trace[j].ev.eventbus.id = pluginMap[i].eventProxy.id
         /\ "onPluginLoad" \in InstanceMethods(pluginMap[i].instance) =>
              \E j \in 1..Len(last'.trace) :
                /\ CallsOf(last'.trace, pluginMap[i].name, "onPluginLoad") = {j}
                /\ last'.trace[j].ev.eventbus.id = pluginMap'[i].eventProxy.id
                /\ last'.trace[j].ev.eventbus.eventbus = last'.args.eventbus
                /\ \A k \in 1..Len(last'.trace) :
                     last'.trace[k].method = "onPluginUnload" => k < j
     ]_vars

\* The ids of the proxies the registered entries hold.
ProxyIds(map) ==
  {map[i].eventProxy.id : i \in {j \in 1..Len(map) : IsEventProxy(map[j].eventProxy)}}

\* C11: a setEventbus to another bus that returns leaves on the bus bound
\* before neither a subscription of the manager's handlers nor one made
\* through the proxy an entry registered at the call held.
C11_OldBusIsClean ==
  [][(/\ last'.op = "setEventbus"
      /\ last'.ret.kind = "return"
      /\ eventbus # NoBus
      /\ last'.args.eventbus # eventbus) =>
       \A x \in bus'[eventbus] :
         x.via # "manager" /\ x.cb \notin ProxyIds(pluginMap)
    ]_vars

\* The same for every call of setEventbus with another bus, whether it
\* returns or throws.
C11_OldBusIsCleanAfterEveryCall ==
  [][(/\ last'.op = "setEventbus"
      /\ eventbus # NoBus
      /\ last'.args.eventbus # eventbus) =>
       \A x \in bus'[eventbus] :
         x.via # "manager" /\ x.cb \notin ProxyIds(pluginMap)
    ]_vars

\* A call of setEventbus with another bus made while entries are registered
\* never returns.
SetEventbusThrowsWithEntries ==
  [][(/\ last'.op = "setEventbus"
      /\ last'.args.eventbus # eventbus
      /\ Len(pluginMap) > 0) =>
       /\ last'.ret.kind = "throw"
       /\ eventbus' = eventbus
       /\ CallsOf(last'.trace, pluginMap[1].name, "onPluginLoad") = {}
    ]_vars

\* The candidate names of a dispatch over target.
CandidateNames(target) ==
  CASE target.t = "string" -> {target.name}
    [] target.t = "list" -> {target.list[i] : i \in 1..Len(target.list)}
    [] OTHER -> {pluginMap[i].name : i \in 1..Len(pluginMap)}

\* The registered, enabled entries among the candidates of target.
MatchedEntries(target) ==
  {pluginMap[i] : i \in {j \in 1..Len(pluginMap) :
                           /\ pluginMap[j].name \in CandidateNames(target)
                           /\ pluginMap[j].enabled}}

\* C12: invokeSync and invokeSyncEvent fail with the 'no target' error
\* exactly when throwNoPlugin is set and no candidate is a registered,
\* enabled entry; with neither option set they never fail for lack of a
\* target or method, and having invoked nothing they return undefined or
\* the payload with the meta data of an empty call.
C12_NoTargetError ==
  last.op \in {"invokeSync", "invokeSyncEvent"} =>
    /\ last.ret = Throw(NoTargetError) <=>
         (options.throwNoPlugin /\ MatchedEntries(last.args.nameOrList) = {})
    /\ (~options.throwNoPlugin /\ ~options.throwNoMethod) =>
         /\ last.ret.err \notin {NoTargetError, NoMethodError}
         /\ (last.trace = <<>> /\ last.op = "invokeSync") =>
              last.ret = Return(Undefined)
         /\ (last.trace = <<>> /\ last.op = "invokeSyncEvent") =>
              /\ last.ret.kind = "return"
              /\ ReturnedPayload["$$plugin_invoke_count"] = Num(0)
              /\ ReturnedPayload["$$plugin_invoke_names"] = Arr(<<>>)
              /\ (/\ last.args.copyProps = <<"E", 0>>
                  /\ last.args.passthruProps = <<"E", 0>>) =>
                   DOMAIN ReturnedPayload =
                     {"$$plugin_invoke_count", "$$plugin_invoke_names"}

C12_Witness ==
  /\ last.op = "invokeSync"
  /\ last.args.nameOrList = TargetList(<<"b", "a">>)
  /\ options.throwNoPlugin
  /\ MapHas(pluginMap, "a")
  /\ ~MapGet(pluginMap, "a").enabled
  /\ last.ret = Throw(NoTargetError)

\* C13 as stated: the 'no method' error is raised only when throwNoMethod is
\* set, some candidate is a registered, enabled entry and none of these
\* exposes the method; never when no entry matched.
C13_NoMethodOnlyWhenMatched ==
  (last.op \in DispatchOps /\ last.ret.err = NoMethodError) =>
    /\ options.throwNoMethod
    /\ MatchedEntries(last.args.nameOrList) # {}
    /\ \A e \in MatchedEntries(last.args.nameOrList) :
         last.args.methodName \notin InstanceMethods(e.instance)

\* C13 amended: the 'no method' error is raised only when throwNoMethod is
\* set and none of the matched entries exposes the method; when no entry
\* matched it is raised if throwNoPlugin is unset, and the 'no target'
\* error is raised in its place if throwNoPlugin is set.
C13_NoMethodError ==
  last.op \in DispatchOps =>
    /\ last.ret.err = NoMethodError =>
         /\ options.throwNoMethod
         /\ \A e \in MatchedEntries(last.args.nameOrList) :
              last.args.methodName \notin InstanceMethods(e.instance)
    /\ (/\ MatchedEntries(last.args.nameOrList) = {}
        /\ options.throwNoMethod
        /\ ~options.throwNoPlugin) => last.ret.err = NoMethodError
    /\ (MatchedEntries(last.args.nameOrList) = {} /\ options.throwNoPlugin) =>
         last.ret.err = NoTargetError

C13_Witness ==
  /\ last.op = "invokeSyncEvent"
  /\ MatchedEntries(last.args.nameOrList) = {}
  /\ Len(pluginMap) > 0
  /\ last.ret = Throw(NoMethodError)

LifecycleOps == {"add", "remove", "removeAll", "setEventbus"}

\* C14: add, remove, removeAll and setEventbus never fail with the
\* 'no target' or the 'no method' error, whatever throwNoPlugin and
\* throwNoMethod are and whichever hooks the plugins expose.
C14_LifecycleIsQuiet ==
  last.op \in LifecycleOps => last.ret.err \notin {NoTargetError, NoMethodError}

C14_Witness ==
  /\ last.op = "remove"
  /\ options.throwNoPlugin /\ options.throwNoMethod
  /\ last.ret = Return(Bool(TRUE))
  /\ last.trace = <<>>
  /\ \E i \in 1..Len(pluginMap) : pluginMap[i].instance = "i3"

\* The positions in trace of the calls that threw.
ThrowingCalls(trace) ==
  {j \in 1..Len(trace) : Throws(trace[j].instance, trace[j].method)}

\* C15: invokeAsync returns a promise and never throws: when a plugin
\* method throws the promise is rejected with its error and no plugin after
\* it is invoked, and the two option failures are rejections too.
C15_AsyncNeverThrows ==
  last.op = "invokeAsync" =>
    /\ last.ret.kind \in {"resolve", "all", "reject"}
    /\ ThrowingCalls(last.trace) # {} =>
         /\ last.ret = PromiseReject(PluginError)
         /\ ThrowingCalls(last.trace) = {Len(last.trace)}
    /\ (options.throwNoPlugin /\ MatchedEntries(last.args.nameOrList) = {}) =>
         last.ret = PromiseReject(NoTargetError)
    /\ (/\ options.throwNoMethod
        /\ MatchedEntries(last.args.nameOrList) # {}
        /\ last.trace = <<>>) => last.ret = PromiseReject(NoMethodError)

C15_Witness ==
  /\ last.op = "invokeAsync"
  /\ last.args.nameOrList = TargetKeys
  /\ Len(EnabledWithMethod("test2")) = 2
  /\ Len(last.trace) = 1
  /\ last.trace[1].instance = "i2"
  /\ last.ret = PromiseReject(PluginError)

\* The results of the latest call that are promises.
PromiseResults == {i \in 1..Len(last.trace) : TraceReturns(last.trace)[i].t = "promise"}

EntryToRemove == MapGet(pluginMap, last'.args.name)

\* C17: remove(name) of a registered entry exposing onPluginUnload, enabled
\* or not, invokes onPluginUnload once while the entry is registered and
\* its proxy's subscriptions are on the bus, then takes these off the bus,
\* deletes the entry and returns true; for an unregistered name it returns
\* false and changes nothing.
C17_RemoveUnloadsThenRevokes ==
  [][last'.op = "remove" =>
       IF MapHas(pluginMap, last'.args.name)
       THEN /\ "onPluginUnload" \in InstanceMethods(EntryToRemove.instance) =>
                 /\ Len(last'.trace) = 1
                 /\ last'.trace[1].plugin = last'.args.name
                 /\ last'.trace[1].method = "onPluginUnload"
                 /\ \E k \in 1..Len(last'.trace[1].keys) :
                      last'.trace[1].keys[k] = last'.args.name
                 /\ last'.trace[1].subs = ProxySubs(bus, EntryToRemove.eventProxy)
            /\ \A b \in Buses : \A x \in bus'[b] :
                 IsEventProxy(EntryToRemove.eventProxy) =>
                   x.cb # EntryToRemove.eventProxy.id
            /\ ~MapHas(pluginMap', last'.args.name)
            /\ last'.ret = Return(Bool(TRUE))
       ELSE /\ last'.ret = Return(Bool(FALSE))
            /\ last'.trace = <<>>
            /\ UNCHANGED <<pluginMap, eventbus, eventPrepend, options, bus>>
    ]_vars

\* The entry add has just inserted.
AddedEntry == MapGet(pluginMap', last'.args.name)

\* C18: a successful add(config) leaves an entry for config.name that is
\* enabled, holds config.instance and config.options and a proxy that did
\* not exist before (none when no bus is bound); when the instance exposes
\* onPluginLoad it is invoked exactly once, for that entry only, with
\* pluginName = config.name and eventbus = the new proxy, and the name is
\* already among the registry's keys during the call; otherwise no plugin
\* method is invoked.
C18_AddInsertsThenLoads ==
  [][(last'.op = "add" /\ last'.ret.kind # "throw") =>
       /\ MapHas(pluginMap', last'.args.name)
       /\ AddedEntry.enabled
       /\ AddedEntry.instance = last'.args.instance
       /\ AddedEntry.options = last'.args.options
       /\ IF eventbus = NoBus THEN AddedEntry.eventProxy = NoProxy
          ELSE /\ AddedEntry.eventProxy.id = nextProxy
               /\ AddedEntry.eventProxy.eventbus = eventbus
               /\ nextProxy \notin ProxyIds(pluginMap)
               /\ \A b \in Buses : \A x \in bus[b] : x.cb # nextProxy
       /\ IF "onPluginLoad" \in InstanceMethods(last'.args.instance)
          THEN /\ Len(last'.trace) = 1
               /\ last'.trace[1].plugin = last'.args.name
               /\ last'.trace[1].instance = last'.args.instance
               /\ last'.trace[1].method = "onPluginLoad"
               /\ last'.trace[1].ev.pluginName = last'.args.name
               /\ last'.trace[1].ev.eventbus = AddProxy(State)
               /\ \E k \in 1..Len(last'.trace[1].keys) :
                    last'.trace[1].keys[k] = last'.args.name
          ELSE last'.trace = <<>>
    ]_vars

\* An add on a manager bound to a bus has invoked onPluginLoad with the
\* entry's proxy.
C18_Witness ==
  /\ last.op = "add"
  /\ last.ret.kind = "return"
  /\ Len(last.trace) = 1
  /\ last.trace[1].method = "onPluginLoad"
  /\ IsEventProxy(last.trace[1].ev.eventbus)
  /\ MapGet(pluginMap, last.args.name).eventProxy.id = last.trace[1].ev.eventbus.id

\* The pluginConfig arguments the checks of add are written against.
Malformed(pluginConfig) ==
  \/ pluginConfig.t = "undefined"
  \/ TypeOf(pluginConfig.name) # "string"
  \/ pluginConfig.target # "undefined" /\ TypeOf(pluginConfig.target) # "string"
  \/ pluginConfig.options # "undefined" /\ TypeOf(pluginConfig.options) # "object"

\* C19: add fails with a TypeError when pluginConfig is missing, its name is
\* not a string, its target is present and not a string, or its options are
\* present and not an object; the registry with every enabled flag, the bound
\* bus and the subscriptions on every bus are then as before the call, and
\* no plugin method has been invoked.
C19_RejectedAddChangesNothing ==
  [][(last'.op = "add" /\ Malformed(last'.args)) =>
       /\ last'.ret.kind = "throw"
       /\ last'.ret.err \in {ConfigTypeError, NameTypeError, TargetTypeError,
                             OptionsTypeError}
       /\ last'.trace = <<>>
       /\ UNCHANGED <<pluginMap, eventbus, eventPrepend, options, bus,
                      nextProxy>>
    ]_vars

\* An add was rejected for its options on a manager that holds an entry
\* with a subscription on the bus.
C19_Witness ==
  /\ last.op = "add"
  /\ last.ret = Throw(OptionsTypeError)
  /\ Len(pluginMap) > 0
  /\ \E b \in Buses : bus[b] # {}

\* The index of the first pluginConfig of the list that add rejects, one past
\* the end when there is none.
FirstRejected(pluginConfigs) ==
  IF \E i \in 1..Len(pluginConfigs) : Malformed(pluginConfigs[i])
  THEN CHOOSE i \in 1..Len(pluginConfigs) :
         /\ Malformed(pluginConfigs[i])
         /\ \A j \in 1..(i - 1) : ~Malformed(pluginConfigs[j])
  ELSE Len(pluginConfigs) + 1

ExposesLoad(pluginConfig) ==
  "onPluginLoad" \in InstanceMethods(pluginConfig.instance)

\* The names of the first n configs whose instance exposes onPluginLoad, in
\* list order.
LoadedNames(pluginConfigs, n) ==
  [i \in 1..Len(SelectSeq(SubSeq(pluginConfigs, 1, n), ExposesLoad)) |->
     SelectSeq(SubSeq(pluginConfigs, 1, n), ExposesLoad)[i].name]

\* Whether name is the name of one of the first n configs.
NamedBefore(pluginConfigs, n, name) ==
  \E j \in 1..n : pluginConfigs[j].name = name

\* C20: addAll(configs) adds the configs in list order up to the first one
\* add rejects and then fails: onPluginLoad has been invoked, in list order,
\* for exactly the configs before it that expose the hook, each of them is
\* registered, and the names of the configs after it are registered exactly
\* as they were before the call; with no rejected config every config is
\* added and addAll returns.
C20_AddAllStopsAtFirstFailure ==
  [][last'.op = "addAll" =>
       /\ TraceNames(last'.trace) =
            LoadedNames(last'.args.configs, FirstRejected(last'.args.configs) - 1)
       /\ \A j \in 1..Len(last'.trace) : last'.trace[j].method = "onPluginLoad"
       /\ \A i \in 1..(FirstRejected(last'.args.configs) - 1) :
            /\ MapHas(pluginMap', last'.args.configs[i].name)
            /\ \E j \in i..(FirstRejected(last'.args.configs) - 1) :
                 /\ last'.args.configs[j].name = last'.args.configs[i].name
                 /\ MapGet(pluginMap', last'.args.configs[i].name).instance =
                      last'.args.configs[j].instance
       /\ IF FirstRejected(last'.args.configs) <= Len(last'.args.configs)
          THEN /\ last'.ret.kind = "throw"
               /\ \A n \in Names :
                    NamedBefore(last'.args.configs,
                                FirstRejected(last'.args.configs) - 1, n)
                    \/ /\ MapHas(pluginMap', n) <=> MapHas(pluginMap, n)
                       /\ MapHas(pluginMap, n) =>
                            MapGet(pluginMap', n) = MapGet(pluginMap, n)
          ELSE last'.ret = Return(Undefined)
    ]_vars

\* An addAll failed at its second config on a manager without b: a is
\* registered and loaded, the third config, named b, was not added.
C20_Witness ==
  /\ last.op = "addAll"
  /\ last.ret.kind = "throw"
  /\ Len(last.args.configs) = 3
  /\ TraceNames(last.trace) = <<"a">>
  /\ MapHas(pluginMap, "a")
  /\ ~MapHas(pluginMap, "b")

EnableOps == {"enableAllPlugins", "enablePlugin", "enablePlugins"}

\* Whether the call c of an enable operation names the entry under name.
EnableMatches(c, name) ==
  CASE c.op = "enableAllPlugins" -> TRUE
    [] c.op = "enablePlugin" -> c.args.name = name
    [] c.op = "enablePlugins" ->
         \E k \in 1..Len(c.args.names) : c.args.names[k] = name
    [] OTHER -> FALSE

\* C21: enableAllPlugins, enablePlugin and enablePlugins invoke no plugin
\* method and leave the registry as it was, entry by entry and in the same
\* order, except that the enabled flag of every matched entry is the
\* argument; the bound bus, its prefix, the options and the subscriptions on
\* every bus are unchanged.
C21_EnableChangesOnlyFlag ==
  [][last'.op \in EnableOps =>
       /\ last'.trace = <<>>
       /\ Len(pluginMap') = Len(pluginMap)
       /\ \A i \in 1..Len(pluginMap) :
            pluginMap'[i] =
              [pluginMap[i] EXCEPT
                 !.enabled = IF EnableMatches(last', pluginMap[i].name)
                             THEN last'.args.enabled ELSE @]
       /\ UNCHANGED <<eventbus, eventPrepend, options, bus>>
    ]_vars

\* A plugin with a subscription on the bus has been disabled, ahead of an
\* entry that stays enabled.
C21_Witness ==
  /\ last.op = "enablePlugin"
  /\ last.args.enabled = FALSE
  /\ Len(pluginMap) = 2
  /\ pluginMap[1].name = last.args.name
  /\ ~pluginMap[1].enabled
  /\ pluginMap[2].enabled
  /\ ProxySubs(bus, pluginMap[1].eventProxy) # {}

\* The manager with both bus command options unset.
Opened(s) ==
  [s EXCEPT !.options = [noEventAdd |-> FALSE, noEventRemoval |-> FALSE] @@ @]

\* Two outcomes with the same registry, buses, invocations and result.
SameOutcome(r1, r2) ==
  /\ r1.s.pluginMap = r2.s.pluginMap
  /\ r1.s.bus = r2.s.bus
  /\ r1.s.eventbus = r2.s.eventbus
  /\ r1.s.eventPrepend = r2.s.eventPrepend
  /\ r1.trace = r2.trace
  /\ r1.ret = r2.ret

\* add, addAll, remove and removeAll called directly do what they do with
\* noEventAdd and noEventRemoval unset.
DirectCallsIgnoreEventOptions ==
  /\ \A pluginConfig \in EventConfigs :
       SameOutcome(add(State, pluginConfig), add(Opened(State), pluginConfig))
  /\ \A pluginConfigs \in ConfigLists :
       SameOutcome(addAll(State, pluginConfigs),
                   addAll(Opened(State), pluginConfigs))
  /\ \A pluginName \in Names :
       SameOutcome(remove(State, pluginName), remove(Opened(State), pluginName))
  /\ SameOutcome(removeAll(State), removeAll(Opened(State)))

\* C22: while noEventAdd is set the commands ':add' and ':add:all', and
\* while noEventRemoval is set the commands ':remove' and ':remove:all',
\* invoke no plugin method and leave the registry, the buses with every
\* subscription and the options unchanged; the direct calls of add, addAll,
\* remove and removeAll do not depend on the two options.
C22_ClosedCommandsChangeNothing ==
  /\ []DirectCallsIgnoreEventOptions
  /\ [][/\ (last'.op \in {":add", ":add:all"} /\ options.noEventAdd) =>
            /\ last'.trace = <<>>
            /\ UNCHANGED <<pluginMap, bus, eventbus, eventPrepend, options,
                           nextProxy>>
        /\ (last'.op \in {":remove", ":remove:all"} /\ options.noEventRemoval) =>
            /\ last'.trace = <<>>
            /\ UNCHANGED <<pluginMap, bus, eventbus, eventPrepend, options,
                           nextProxy>>
      ]_vars

\* The command ':remove' was published for a registered plugin with a
\* subscription on the bus while noEventRemoval was set.
C22_Witness ==
  /\ last.op = ":remove"
  /\ options.noEventRemoval
  /\ last.ret = Return(Bool(FALSE))
  /\ MapHas(pluginMap, last.args.name)
  /\ ProxySubs(bus, MapGet(pluginMap, last.args.name).eventProxy) # {}

\* The step has the effect and the result of the direct call with outcome r.
EffectOf(r) ==
  /\ pluginMap' = r.s.pluginMap
  /\ bus' = r.s.bus
  /\ eventbus' = r.s.eventbus
  /\ eventPrepend' = r.s.eventPrepend
  /\ options' = r.s.options
  /\ last'.trace = r.trace
  /\ last'.ret = r.ret

\* The commands whose handlers are the public methods themselves or return
\* what the method returns with the arguments published.
AliasedCommands ==
  /\ last'.op = ":add" => EffectOf(add(State, last'.args.config))
  /\ last'.op = ":remove" => EffectOf(remove(State, last'.args.name))
  /\ last'.op = ":remove:all" => EffectOf(removeAll(State))
  /\ last'.op = ":enable:plugin" =>
       EffectOf(enablePlugin(State, last'.args.name, last'.args.enabled))

\* C23: with noEventAdd and noEventRemoval unset, a command published on the
\* bus with given arguments changes the registry and the buses and yields
\* the result as the direct call of the corresponding method with those
\* arguments does; ':add:all' published with a list of configs does what
\* addAll does with that list.
C23_CommandsAliasMethods ==
  [][(~options.noEventAdd /\ ~options.noEventRemoval) =>
       /\ AliasedCommands
       /\ last'.op = ":add:all" => EffectOf(addAll(State, last'.args.configs))
    ]_vars

\* The same without ':add:all'.
C23_OtherCommandsAliasMethods ==
  [][(~options.noEventAdd /\ ~options.noEventRemoval) => AliasedCommands]_vars

\* C24: when destroy() returns, the bus that was bound carries neither a
\* subscription of the manager's handlers nor one made through a proxy
\* handed to a plugin; these are all the subscriptions there are.
C24_DestroyLeavesBusClean ==
  [][(last'.op = "destroy" /\ last'.ret.kind = "return" /\ eventbus # NoBus) =>
       bus'[eventbus] = {}
    ]_vars

\* C25: getOptions() and getPluginOptions(name) return a new object: after
\* the caller has written to it, to a top-level property or to a nested
\* object, the manager's options and every entry with its stored options
\* are as before the call, so a later call returns the original contents.
C25_ReturnedOptionsAreCopies ==
  [][last'.op \in {"getOptions", "getPluginOptions"} =>
       /\ UNCHANGED <<pluginMap, options, bus, eventbus, eventPrepend>>
       /\ last'.ret.v.t = "ref" =>
            /\ last'.ret.v.r = ReturnedId
            /\ last'.heap[Reached(last'.heap, ReturnedId, last'.args.write)]
                 [last'.args.write[Len(last'.args.write)]] \in
                   {Num(2), Bool(TRUE), Bool(FALSE)}
            /\ last'.op = "getOptions" =>
                 getOptions(State').heap[ReturnedId] =
                   [k \in DOMAIN options |-> Bool(options[k])]
            /\ last'.op = "getPluginOptions" =>
                 getPluginOptions(State', last'.args.name).heap[ReturnedId].mode
                   = Num(1)
    ]_vars

\* A caller has set nested.level = 2 on the options getPluginOptions
\* returned; the entry still holds its options.
C25_Witness ==
  /\ last.op = "getPluginOptions"
  /\ last.args.write = <<"nested", "level">>
  /\ last.ret = Return(Ref(ReturnedId))
  /\ last.heap[last.heap[ReturnedId].nested.r].level = Num(2)
  /\ MapGet(pluginMap, last.args.name).options = "optA"

\* Whether the instance of some registered entry exposes methodName.
SomeInstanceExposes(methodName) ==
  \E i \in 1..Len(pluginMap) :
    methodName \in InstanceMethods(pluginMap[i].instance) \cup InheritedFunctions

\* C26: hasMethod(m) returns true exactly when the instance of at least one
\* registered entry, enabled or disabled, exposes m as a function; it
\* returns the same with every entry enabled and with every entry disabled,
\* and changes nothing.
C26_HasMethodIgnoresEnabled ==
  [][last'.op = "hasMethod" =>
       /\ last'.ret = Return(Bool(SomeInstanceExposes(last'.args.methodName)))
       /\ \A enabled \in BOOLEAN :
            hasMethod(enableAllPlugins(State, enabled).s,
                      last'.args.methodName).ret = last'.ret
       /\ UNCHANGED <<pluginMap, options, bus, eventbus, eventPrepend>>
    ]_vars

\* hasMethod answered true for a method that only disabled plugins expose.
C26_Witness ==
  /\ last.op = "hasMethod"
  /\ last.args.methodName = "onPluginUnload"
  /\ last.ret = Return(Bool(TRUE))
  /\ Len(pluginMap) = 2
  /\ \A i \in 1..Len(pluginMap) :
       "onPluginUnload" \in InstanceMethods(pluginMap[i].instance) =>
         ~pluginMap[i].enabled

\* The entry registered under the name hasPluginMethod is asked about.
NamedEntry == MapGet(pluginMap, last'.args.name)

\* Whether getPluginMethodNames() lists the pair (pluginName, methodName).
PairListed(pluginName, methodName) ==
  \E k \in 1..Len(getPluginMethodNames(State, "undefined")) :
    getPluginMethodNames(State, "undefined")[k] =
      [plugin |-> pluginName, method |-> methodName]

\* C27: hasPluginMethod(name, m) returns true exactly when an entry is
\* registered under name and its instance exposes m as a function; for the
\* methods the plugins declare this is when getPluginMethodNames() lists
\* the pair, and a true answer implies that hasMethod(m) is true.
C27_HasPluginMethodReadsInstance ==
  [][last'.op = "hasPluginMethod" =>
       /\ last'.ret =
            Return(Bool(/\ MapHas(pluginMap, last'.args.name)
                        /\ last'.args.methodName \in
                             InstanceMethods(NamedEntry.instance) \cup
                               InheritedFunctions))
       /\ last'.args.methodName \notin InheritedFunctions =>
            last'.ret = Return(Bool(PairListed(last'.args.name,
                                               last'.args.methodName)))
       /\ last'.ret = Return(Bool(TRUE)) =>
            hasMethod(State, last'.args.methodName).ret = Return(Bool(TRUE))
    ]_vars

\* C28: between operations every registered entry holds an event proxy
\* exactly if the manager has a bound bus, and the proxy wraps that bus.
C28_ProxyWrapsBoundBus ==
  \A i \in 1..Len(pluginMap) :
    /\ IsEventProxy(pluginMap[i].eventProxy) <=> eventbus # NoBus
    /\ IsEventProxy(pluginMap[i].eventProxy) =>
         pluginMap[i].eventProxy.eventbus = eventbus

\* The same for the proxies that were not destroyed: an entry never holds a
\* live proxy on a bus other than the bound one.
LiveProxiesWrapBoundBus ==
  \A i \in 1..Len(pluginMap) :
    /\ IsEventProxy(pluginMap[i].eventProxy) <=> eventbus # NoBus
    /\ (/\ IsEventProxy(pluginMap[i].eventProxy)
        /\ ~IsDestroyed(pluginMap[i].eventProxy)) =>
         pluginMap[i].eventProxy.eventbus = eventbus

\* No state has a bound bus and an entry that was registered before the bus
\* was bound: the registry is empty at every step that binds a bus.
BindingFindsNoEntry ==
  [][(eventbus' # eventbus /\ eventbus' # NoBus) => Len(pluginMap) = 0]_vars

\* The subscriptions on bus b made for the plugin name through a proxy other
\* than the one its entry in map holds.
ReplacedSubs(b, map, name) ==
  {x \in bus[b] : x.via = name /\ x.cb \notin ProxyIds(map)}

ReturnsPromise(r) ==
  \E i \in 1..Len(r.trace) : TraceReturns(r.trace)[i].t = "promise"

\* The promise with settlement c is resolved with the value invokeSync
\* returned as y.
ResolvedTo(c, y) ==
  /\ c.state = "resolved"
  /\ IF y.ret.isArray THEN c.arr = y.ret.arr ELSE c.v = y.ret.v /\ c.arr = <<>>

\* The promise with settlement c is rejected with the error invokeSync threw
\* as y.
RejectedAs(c, y) == c.state = "rejected" /\ c.err = y.ret.err

\* invokeAsync with outcome a against invokeSync with outcome y for the same
\* manager and arguments: the same invocations and the same manager
\* afterwards; rejected with the error invokeSync threw; resolved to the
\* value invokeSync returned when no plugin result is a promise; following
\* the promise a plugin returned otherwise.
AsyncAsSync(a, y) ==
  /\ a.trace = y.trace
  /\ a.s = y.s
  /\ a.ret.kind \in {"resolve", "all", "reject"}
  /\ Thrown(y) => RejectedAs(Completion(a.ret, settled), y)
  /\ (~Thrown(y) /\ ~ReturnsPromise(a)) =>
       ResolvedTo(Completion(a.ret, settled), y)
  /\ (~Thrown(y) /\ ReturnsPromise(a)) =>
       /\ Completion(a.ret, settled).state = settled
       /\ settled = "rejected" => Completion(a.ret, settled).err = RejectReason
  /\ Completion(a.ret, settled).state = "rejected" <=>
       (Thrown(y) \/ (ReturnsPromise(a) /\ settled = "rejected"))

C31_EnvelopeNamesItsTarget ==
  [][last'.op = "invokeSyncEvent" =>
       \A j \in 1..Len(last'.trace) :
         /\ MapHas(pluginMap, last'.trace[j].plugin)
         /\ last'.trace[j].ev.pluginName = last'.trace[j].plugin
         /\ last'.trace[j].ev.pluginOptions =
              MapGet(pluginMap, last'.trace[j].plugin).options
         /\ last'.trace[j].ev.eventbus =
              MapGet(pluginMap, last'.trace[j].plugin).eventProxy
    ]_vars

\* A fan-out has invoked two entries with different options and different
\* proxies, each with its own.
C31_Witness ==
  /\ last.op = "invokeSyncEvent"
  /\ Len(last.trace) = 2
  /\ last.trace[1].plugin # last.trace[2].plugin
  /\ IsEventProxy(last.trace[1].ev.eventbus)
  /\ IsEventProxy(last.trace[2].ev.eventbus)
  /\ last.trace[1].ev.eventbus.id # last.trace[2].ev.eventbus.id
  /\ last.trace[1].ev.pluginOptions # last.trace[2].ev.pluginOptions
  /\ last.trace[2].ev.eventbus = MapGet(pluginMap, last.trace[2].plugin).eventProxy

\* The outcome of remove(names[i]) made after the calls with outcome r.
RemoveAfter(r, a) == Result(a.s, r.trace \o a.trace, a.ret, a.heap)

RECURSIVE RemoveEach(_, _, _)
\* for (const name of names) { manager.remove(name); } made by a caller, from
\* the i-th name on; an exception ends it.
RemoveEach(r, names, i) ==
  IF i > Len(names) \/ Thrown(r) THEN r
  ELSE RemoveEach(RemoveAfter(r, remove(r.s, names[i])), names, i + 1)

\* remove(name) for every registered name in registration order.
RemoveInOrder ==
  RemoveEach(Result(State, <<>>, Return(Undefined), CallerHeap),
             MapKeys(pluginMap), 1)

\* What an invocation did: the entry, the method, the envelope and the
\* subscriptions of the entry's proxy that were on the bus.
CallOf(t) ==
  [plugin |-> t.plugin, instance |-> t.instance, method |-> t.method,
   ev |-> t.ev, subs |-> t.subs]

\* removeAll with the invocations trace, leaving the manager with registry
\* map and buses b, against the removals one by one with outcome r: the
\* same onPluginUnload invocations in the same order, each with the entry's
\* own proxy and subscriptions, and the same registry and buses at the end.
SameUnloadsAndEnd(trace, map, b, r) ==
  /\ Len(trace) = Len(r.trace)
  /\ \A j \in 1..Len(trace) :
       /\ CallOf(trace[j]) = CallOf(r.trace[j])
       /\ trace[j].method = "onPluginUnload"
  /\ map = <<>>
  /\ r.s.pluginMap = <<>>
  /\ b = r.s.bus

\* Each onPluginUnload found the same registry in both.
SameRegistrySeen(trace, r) ==
  \A j \in 1..Len(trace) : trace[j].keys = r.trace[j].keys

\* C32 as stated: a removeAll that returns does what remove(name) for every
\* registered name in registration order does: the same onPluginUnload
\* invocations, each finding the same registry and subscriptions, and at the
\* end an empty registry and the entries' subscriptions revoked.
C32_RemoveAllAsRemoves ==
  [][(last'.op = "removeAll" /\ last'.ret.kind = "return") =>
       /\ SameUnloadsAndEnd(last'.trace, pluginMap', bus', RemoveInOrder)
       /\ SameRegistrySeen(last'.trace, RemoveInOrder)
    ]_vars

\* C32 amended: a removeAll that returns makes the onPluginUnload invocations
\* of the removals one by one, in the same order and each with the entry's
\* own proxy and subscriptions, and ends as they do; but every
\* onPluginUnload of removeAll runs while all the entries are registered,
\* where the removals one by one have deleted the entries before.
C32_RemoveAllUnloadsThenClears ==
  [][(last'.op = "removeAll" /\ last'.ret.kind = "return") =>
       /\ SameUnloadsAndEnd(last'.trace, pluginMap', bus', RemoveInOrder)
       /\ \A j \in 1..Len(last'.trace) :
            /\ last'.trace[j].keys = MapKeys(pluginMap)
            /\ \A k \in 1..Len(RemoveInOrder.trace[j].keys) :
                 \E i \in 1..Len(pluginMap) :
                   /\ pluginMap[i].name = RemoveInOrder.trace[j].keys[k]
                   /\ \A h \in 1..(j - 1) :
                        pluginMap[i].name # last'.trace[h].plugin
    ]_vars

\* removeAll has unloaded two entries of a bound manager, one of which had
\* a subscription on the bus, and left the registry and the bus empty of
\* them.
C32_Witness ==
  /\ last.op = "removeAll"
  /\ last.ret.kind = "return"
  /\ Len(last.trace) = 2
  /\ last.trace[1].keys = last.trace[2].keys
  /\ \E j \in 1..2 : last.trace[j].subs # {}
  /\ pluginMap = <<>>
  /\ eventbus # NoBus
  /\ \A x \in bus[eventbus] : x.via = "manager"

\* The manager's handlers on bus b are exactly those under prepend, and no
\* other bus carries one.
HandlersOnlyOn(bs, b, prepend) ==
  /\ {x \in bs[b] : x.via = "manager"} = ManagerSubs(prepend)
  /\ \A o \in Buses \ {b} : \A x \in bs[o] : x.via # "manager"

\* C33: after a setEventbus(bus, prefix) with another bus than the bound one
\* that returns, the manager's handlers are subscribed on bus under prefix
\* and on no other bus or prefix.
C33_HandlersOnOneBus ==
  [][(/\ last'.op = "setEventbus"
      /\ last'.ret.kind = "return"
      /\ last'.args.eventbus # eventbus) =>
       HandlersOnlyOn(bus', last'.args.eventbus, last'.args.prepend)
    ]_vars

\* The same for every setEventbus that returns, the calls with the bound bus
\* and another prefix included.
HandlersFollowEveryCall ==
  [][(last'.op = "setEventbus" /\ last'.ret.kind = "return") =>
       HandlersOnlyOn(bus', last'.args.eventbus, last'.args.prepend)
    ]_vars

\* After a setEventbus with another bus that returns the handlers are on
\* the target bus under the prefix given.
HandlersReachTarget ==
  [][(/\ last'.op = "setEventbus"
      /\ last'.ret.kind = "return"
      /\ last'.args.eventbus # eventbus) =>
       /\ eventbus' = last'.args.eventbus
       /\ ManagerSubs(last'.args.prepend) \subseteq bus'[last'.args.eventbus]
    ]_vars

(***************************************************************************)
(* C34: the simple dispatcher                                               *)
(***************************************************************************)
\* The added plugins that expose methodName as a function, in addPlugin order.
DistExposers(plugs, methodName) ==
  SelectSeq(plugs, LAMBDA plugin : IsFunction(plugin, methodName))

\* The invocations of trace are those of the plugins exp from the first on,
\* one each, all with the one event.
DistVisits(trace, exp, methodName) ==
  /\ Len(trace) <= Len(exp)
  /\ \A j \in 1..Len(trace) :
       /\ trace[j].instance = exp[j]
       /\ trace[j].method = methodName
       /\ trace[j].ev = trace[1].ev

\* C34: invoke(methodName, data, copy) with a string methodName returns null
\* exactly when no added plugin exposes methodName as a function; otherwise,
\* when no plugin method throws, it returns the event after invoking the
\* method once on every exposing plugin in addPlugin order, all with that one
\* event, and when one throws the plugins before it were visited so; with
\* copy true the caller's data object is as it was before the call.
C34_InvokeReachesExposers ==
  (last.op = "invoke" /\ TypeOf(last.args.methodName) = "string") =>
    /\ (last.ret = Return(Null)) <=>
         (DistExposers(_plugins, last.args.methodName) = <<>>)
    /\ DistVisits(last.trace, DistExposers(_plugins, last.args.methodName),
                  last.args.methodName)
    /\ (last.ret.kind = "return" /\ last.trace # <<>>) =>
         /\ Len(last.trace) =
              Len(DistExposers(_plugins, last.args.methodName))
         /\ last.ret = ReturnData(last.trace[1].ev.data)
    /\ last.ret.kind = "throw" =>
         Throws(last.trace[Len(last.trace)].instance, last.args.methodName)
    /\ last.args.copy =>
         /\ last.heap[<<"C", 0>>] = CallerHeap[<<"C", 0>>]
         /\ last.heap[<<"CN", 0>>] = CallerHeap[<<"CN", 0>>]
         /\ last.heap[<<"E", 0>>] = CallerHeap[<<"E", 0>>]

\* Two plugins exposing test are invoked in the order added with one event on
\* a copy of the caller's data, a third plugin without test being skipped.
C34_Witness ==
  /\ last.op = "invoke"
  /\ last.args = [methodName |-> "test", data |-> <<"C", 0>>, copy |-> TRUE]
  /\ _plugins = <<"i2", "i3", "i1">>
  /\ last.ret.kind = "return"
  /\ Len(last.trace) = 2
  /\ last.trace[1].instance = "i2"
  /\ last.trace[2].instance = "i1"
  /\ last.trace[2].seen = 1
  /\ SeenCount(last.heap, last.ret.data) = 2
  /\ last.heap[<<"CN", 0>>] = CallerHeap[<<"CN", 0>>]

(***************************************************************************)
(* C36: a list of names as target                                           *)
(***************************************************************************)
\* The occurrences in list of the names that are registered in map, enabled
\* and hold methodName as a function, in list order.
ListTargets(map, list, methodName) ==
  SelectSeq(list, LAMBDA name :
                    /\ IsTarget(map, name)
                    /\ IsFunction(MapGet(map, name).instance, methodName))

\* The error of a call that ret reports, "" when it reports none.
FailureOf(ret) == IF ret.kind \in {"throw", "reject"} THEN ret.err ELSE ""

\* The invocations of trace are those of exp from the first on, all of them
\* unless a plugin method threw; the call reports no error but that of a
\* throwing plugin method or, with throwNoPlugin or throwNoMethod set, that of
\* a list none of whose names was a target.
ListVisits(trace, exp, methodName, ret, opts) ==
  /\ Len(trace) <= Len(exp)
  /\ \A j \in 1..Len(trace) :
       trace[j].plugin = exp[j] /\ trace[j].method = methodName
  /\ FailureOf(ret) # PluginError => Len(trace) = Len(exp)
  /\ FailureOf(ret) = PluginError =>
       Throws(trace[Len(trace)].instance, methodName)
  /\ FailureOf(ret) \in {NoTargetError, NoMethodError} =>
       exp = <<>> /\ (opts.throwNoPlugin \/ opts.throwNoMethod)
  /\ FailureOf(ret) \in {"", PluginError, NoTargetError, NoMethodError}
  /\ (~opts.throwNoPlugin /\ ~opts.throwNoMethod) =>
       FailureOf(ret) \in {"", PluginError}

\* C36: invokeSync, invokeAsync and invokeSyncEvent with a list of names
\* invoke the method on the listed names that are registered, enabled and
\* expose it, in list order and once per occurrence in the list; the other
\* names are passed over, and with throwNoPlugin and throwNoMethod off the
\* call reports no error of its own.
C36_ListOrderAndMultiplicity ==
  [][(/\ last'.op \in {"invokeSync", "invokeAsync", "invokeSyncEvent"}
      /\ last'.args.nameOrList.t = "list") =>
       ListVisits(last'.trace,
                  ListTargets(pluginMap, last'.args.nameOrList.list,
                              last'.args.methodName),
                  last'.args.methodName, last'.ret, options)]_vars

\* The list <<b, a>> on a registry holding a before b: b is invoked first.
C36_Witness ==
  /\ last.op \in {"invokeSync", "invokeAsync", "invokeSyncEvent"}
  /\ last.args.nameOrList = TargetList(<<"b", "a">>)
  /\ MapKeys(pluginMap) = <<"a", "b">>
  /\ Len(last.trace) = 2
  /\ last.trace[1].plugin = "b"
  /\ last.trace[2].plugin = "a"

\* The list <<a, a>>: the method of a is invoked twice.
ListedTwiceInvokedTwice ==
  /\ last.op = "invokeSyncEvent"
  /\ last.args.nameOrList = TargetList(<<"a", "a">>)
  /\ Len(last.trace) = 2
  /\ last.trace[2].seen = 1

\* The list <<b, a>> with b unregistered and a disabled invokes nothing and
\* returns.
ListedNamesPassedOver ==
  /\ last.op = "invokeSync"
  /\ last.args.nameOrList = TargetList(<<"b", "a">>)
  /\ MapKeys(pluginMap) = <<"a">>
  /\ ~MapGet(pluginMap, "a").enabled
  /\ last.trace = <<>>
  /\ last.ret.kind = "return"

(***************************************************************************)
(* C38: setEventbus with the bus already bound                              *)
(***************************************************************************)
\* C38: setEventbus(bus, prefix) with bus the bus the manager is bound to
\* returns without invoking a plugin method and leaves the registry with its
\* entries' proxies, the subscriptions on every bus, the bound bus and the
\* stored prefix as they were, whatever prefix is given.
C38_SameBusIsNoOp ==
  [][(last'.op = "setEventbus" /\ last'.args.eventbus = eventbus) =>
       /\ last'.ret.kind = "return"
       /\ last'.trace = <<>>
       /\ pluginMap' = pluginMap
       /\ bus' = bus
       /\ eventbus' = eventbus
       /\ eventPrepend' = eventPrepend]_vars

\* setEventbus with the bound bus and another prefix than the stored one, on a
\* manager with an entry whose proxy holds a subscription.
C38_Witness ==
  /\ last.op = "setEventbus"
  /\ last.args.eventbus = eventbus
  /\ last.args.prepend # eventPrepend
  /\ last.ret.kind = "return"
  /\ \E i \in 1..Len(pluginMap) :
       ProxySubs(bus, pluginMap[i].eventProxy) # {}
  /\ ManagerSubs(eventPrepend) \subseteq bus[eventbus]

(***************************************************************************)
(* C39: getPluginOptions                                                    *)
(***************************************************************************)
\* C39: getPluginOptions(name) with a string name returns, a copy of the
\* options for a registered name and undefined for an unregistered one, and
\* leaves the registry as it was.
C39_GetPluginOptionsReturns ==
  [][last'.op = "getPluginOptions" =>
       /\ last'.ret.kind = "return"
       /\ MapHas(pluginMap, last'.args.name) <=> last'.ret.v = Ref(ReturnedId)
       /\ ~MapHas(pluginMap, last'.args.name) <=> last'.ret.v = Undefined
       /\ pluginMap' = pluginMap]_vars

\* getPluginOptions(name) fails exactly for a registered entry that holds no
\* options; in every case the registry is as it was.
GetPluginOptionsFailsWithoutOptions ==
  [][last'.op = "getPluginOptions" =>
       /\ last'.ret = Throw(JSONSyntaxError) <=>
            /\ MapHas(pluginMap, last'.args.name)
            /\ MapGet(pluginMap, last'.args.name).options = NoOptions
       /\ last'.ret.kind \in {"return", "throw"}
       /\ last'.ret.kind = "return" =>
            (MapHas(pluginMap, last'.args.name) <=> last'.ret.v = Ref(ReturnedId))
       /\ pluginMap' = pluginMap]_vars

\* getPluginOptions of an entry registered without options has thrown.
GetPluginOptionsThrew ==
  /\ last.op = "getPluginOptions"
  /\ MapHas(pluginMap, last.args.name)
  /\ MapGet(pluginMap, last.args.name).options = NoOptions
  /\ last.ret = Throw(JSONSyntaxError)

(***************************************************************************)
(* C37: the destroyed manager                                               *)
(***************************************************************************)
\* C37: every call on a destroyed manager fails with the ReferenceError
\* 'This PluginManager instance has been destroyed.', invokes no plugin
\* method, makes no subscription and leaves the manager destroyed.
C37_DestroyedIsAbsorbing ==
  [][destroyed =>
       /\ last'.ret = Throw(DestroyedError)
       /\ last'.trace = <<>>
       /\ bus' = bus
       /\ destroyed']_vars

\* Every call on a destroyed manager invokes no plugin method, leaves the
\* subscriptions and the manager as they are, and fails, but for
\* invokeSyncEvent with an empty list; the error is the ReferenceError for
\* the methods that check first and for invokeSync and invokeAsync with a
\* target, and a TypeError otherwise.
DestroyedCallsChangeNothing ==
  [][destroyed =>
       /\ last'.trace = <<>>
       /\ bus' = bus
       /\ pluginMap' = pluginMap
       /\ eventbus' = eventbus
       /\ destroyed'
       /\ last'.op \in GuardedCalls => last'.ret = Throw(DestroyedError)
       /\ (last'.op \in {"invokeSync", "invokeAsync"}
             /\ last'.args.nameOrList # TargetKeys) =>
            last'.ret = Throw(DestroyedError)
       /\ (last'.op \in {"invokeSync", "invokeAsync"}
             /\ last'.args.nameOrList = TargetKeys) =>
            last'.ret = Throw(NullMapTypeError)
       /\ (last'.op = "invokeSyncEvent"
             /\ last'.args.nameOrList # TargetList(<<>>)) =>
            last'.ret = Throw(NullMapTypeError)
       /\ (last'.op = "invokeSyncEvent"
             /\ last'.args.nameOrList = TargetList(<<>>)) =>
            last'.ret.kind = "return"]_vars

\* invokeSyncEvent without a target on a manager that was destroyed with a
\* plugin registered has failed with the TypeError.
InvokeSyncEventOnDestroyed ==
  /\ destroyed
  /\ nextProxy > 1
  /\ last.op = "invokeSyncEvent"
  /\ last.args.nameOrList = TargetKeys
  /\ last.ret = Throw(NullMapTypeError)

(***************************************************************************)
(* C40: lifecycle hooks that throw                                          *)
(***************************************************************************)
\* C40: when onPluginUnload throws during remove(name), remove ends with that
\* exception and the registry, the entry with its enabled flag and proxy
\* included, and the subscriptions on every bus are as before the call; when
\* onPluginLoad throws during add(config), add ends with that exception and
\* the new entry is registered under config.name, enabled, with the instance
\* and options of config.
C40_ThrowingHooks ==
  [][/\ (last'.op = "remove" /\ last'.trace # <<>>
          /\ Throws(last'.trace[1].instance, "onPluginUnload")) =>
          /\ last'.ret = Throw(PluginError)
          /\ pluginMap' = pluginMap
          /\ bus' = bus
     /\ (last'.op = "add" /\ last'.trace # <<>>
          /\ Throws(last'.trace[1].instance, "onPluginLoad")) =>
          /\ last'.ret = Throw(PluginError)
          /\ MapHas(pluginMap', last'.args.name)
          /\ MapGet(pluginMap', last'.args.name).enabled
          /\ MapGet(pluginMap', last'.args.name).instance = last'.args.instance
          /\ MapGet(pluginMap', last'.args.name).options = last'.args.options
          /\ \A n \in Names \ {last'.args.name} :
               /\ MapHas(pluginMap', n) <=> MapHas(pluginMap, n)
               /\ MapHas(pluginMap, n) => MapGet(pluginMap', n) = MapGet(pluginMap, n)
    ]_vars

\* remove of an entry whose onPluginUnload threw: the entry is registered and
\* the subscription its onPluginLoad made is on the bus.
C40_Witness ==
  /\ last.op = "remove"
  /\ last.ret = Throw(PluginError)
  /\ Len(last.trace) = 1
  /\ last.trace[1].method = "onPluginUnload"
  /\ MapHas(pluginMap, last.args.name)
  /\ MapGet(pluginMap, last.args.name).enabled
  /\ ProxySubs(bus, MapGet(pluginMap, last.args.name).eventProxy) # {}

\* add of a plugin whose onPluginLoad threw: the entry is registered.
AddThrewAndRegistered ==
  /\ last.op = "add"
  /\ last.ret = Throw(PluginError)
  /\ Len(last.trace) = 1
  /\ last.trace[1].method = "onPluginLoad"
  /\ MapHas(pluginMap, last.args.name)
  /\ MapGet(pluginMap, last.args.name).instance = "i5"

(***************************************************************************)
(* C35: commands published during a fan-out                                 *)
(***************************************************************************)
\* The invocations of methodName in trace, as the names of their plugins.
RECURSIVE VisitedBy(_, _)
VisitedBy(trace, methodName) ==
  IF trace = <<>> THEN <<>>
  ELSE IF Head(trace).method = methodName
    THEN <<Head(trace).plugin>> \o VisitedBy(Tail(trace), methodName)
  ELSE VisitedBy(Tail(trace), methodName)

\* At every plugin invocation of trace the registry holds the names keys, and
\* unless a plugin method threw the entries visited are those of keys that
\* are enabled and expose methodName, each once in registry order.
FrozenDuring(trace, map, methodName, threw) ==
  /\ \A j \in 1..Len(trace) : trace[j].keys = MapKeys(map)
  /\ ~threw =>
       VisitedBy(trace, methodName) = ListTargets(map, MapKeys(map), methodName)

\* C35: during invokeSync, invokeAsync and invokeSyncEvent without target the
\* registry holds at every plugin invocation the names it held when the call
\* began, and the entries visited are the enabled entries registered then
\* that expose the method, also when a plugin method publishes
\* '<prefix>:remove' through its proxy.
C35_RegistryFrozenDuringFanOut ==
  [][(/\ last'.op \in {"invokeSync", "invokeAsync", "invokeSyncEvent"}
      /\ last'.args.nameOrList = TargetKeys) =>
       FrozenDuring(last'.trace, pluginMap, last'.args.methodName,
                    FailureOf(last'.ret) # "")]_vars

\* No registered plugin publishes a command.
NoPublisher(map) ==
  \A i \in 1..Len(map) : map[i].instance \notin PublishingInstances

\* The same for the fan-outs over a registry without a publishing plugin.
FrozenWithoutPublisher ==
  [][(/\ last'.op \in {"invokeSync", "invokeAsync", "invokeSyncEvent"}
      /\ last'.args.nameOrList = TargetKeys
      /\ NoPublisher(pluginMap)) =>
       FrozenDuring(last'.trace, pluginMap, last'.args.methodName,
                    FailureOf(last'.ret) # "")]_vars

\* invokeSync('test') without target on a registry of a and b: the test of a
\* was invoked, b is no longer registered and its test was not invoked.
RemovedDuringFanOut ==
  /\ last.op = "invokeSync"
  /\ last.args = [nameOrList |-> TargetKeys, methodName |-> "test"]
  /\ last.ret.kind = "return"
  /\ Len(last.trace) = 1
  /\ last.trace[1].plugin = "a"
  /\ last.trace[1].keys = <<"a", "b">>
  /\ MapKeys(pluginMap) = <<"a">>

====
